---- MODULE Spec2Model ----
(***************************************************************************)
(* Model of the Garmin export jobs: the activity-type filter, the          *)
(* incremental activity CSV store with its schema migration, the tiered    *)
(* FTP resolver and the daily wellness upsert.                             *)
(*                                                                         *)
(* Python strings are tuples of one-character strings, so that strip,      *)
(* lower, replace and substring tests are computed as the code computes    *)
(* them.  Python objects are tagged records (see None, PyInt, ...).        *)
(***************************************************************************)
EXTENDS Integers, Sequences, FiniteSets, TLC

VARIABLES
    f_flt,      \* ActivityFilter under test: [include_types, exclude_types]
    f_type,     \* the activity_type argument handed to allows
    f_res,      \* the value allows returned
    r_api,      \* the upstream service one FTP resolution runs against
    r_done,     \* resolve_ftp has returned (or raised)
    r_out,      \* what it returned: [raised, res, calls]
    csv,        \* the activity CSV: [exists, rows]
    run,        \* the activity job in progress: its position and its locals
    mig,        \* what the migration of the current run did, and the file it found
    last_append,\* the latest append: the file before it and the lines added
    runs,       \* activity jobs started so far
    wcsv,       \* the wellness CSV: [exists, rows]
    w_day,      \* the position of date.today() in WellnessDates
    w_runs,     \* wellness jobs run so far
    w_prev,     \* what the wellness run before the latest did
    w_last,     \* what the latest wellness run did: [saved, today, line]
    p_call,     \* one call of a helper function: [fn, args]
    p_done,     \* the call has returned
    p_out,      \* the value it returned
    c_pc,       \* the position of the cloud job's main
    c_log,      \* the calls the cloud job made, in order, with their outcome
    c_local,    \* the CSV files in SAVE_PATH of the cloud job's container
    c_drive,    \* the CSV files in the Drive folder
    c_token,    \* the token cache object exists in the bucket
    j_csv,      \* the activity CSV two concurrent job instances share
    j_inst,     \* the two instances: position and locals of each
    h_run,      \* the wellness history job in progress: its position and its locals
    b_run       \* the loop of the activity history main: CHUNK_DAYS, current, end and the ranges asked for

filterVars == <<f_flt, f_type, f_res>>
ftpVars == <<r_api, r_done, r_out>>
runVars == <<csv, run, mig, last_append, runs>>
wellnessVars == <<wcsv, w_day, w_runs, w_prev, w_last>>
callVars == <<p_call, p_done, p_out>>
cloudVars == <<c_pc, c_log, c_local, c_drive, c_token>>
pairVars == <<j_csv, j_inst>>
histVars == <<h_run>>
backfillVars == <<b_run>>
\* the variables each part of the model leaves alone
notFilterVars == <<ftpVars, runVars, wellnessVars, callVars, cloudVars, pairVars, histVars, backfillVars>>
notFtpVars == <<filterVars, runVars, wellnessVars, callVars, cloudVars, pairVars, histVars, backfillVars>>
notRunVars == <<filterVars, ftpVars, wellnessVars, callVars, cloudVars, pairVars, histVars, backfillVars>>
notWellnessVars == <<filterVars, ftpVars, runVars, callVars, cloudVars, pairVars, histVars, backfillVars>>
notCloudVars == <<filterVars, ftpVars, runVars, wellnessVars, callVars, pairVars, histVars, backfillVars>>
notCallVars == <<filterVars, ftpVars, runVars, wellnessVars, cloudVars, pairVars, histVars, backfillVars>>
notPairVars == <<filterVars, ftpVars, runVars, wellnessVars, callVars, cloudVars, histVars, backfillVars>>
notHistVars == <<filterVars, ftpVars, runVars, wellnessVars, callVars, cloudVars, pairVars, backfillVars>>
\* what neither wellness job touches
notWellnessJobsVars == <<filterVars, ftpVars, runVars, callVars, cloudVars, pairVars, backfillVars>>
notBackfillVars == <<filterVars, ftpVars, runVars, wellnessVars, callVars, cloudVars, pairVars, histVars>>
vars ==
    <<f_flt, f_type, f_res, r_api, r_done, r_out, csv, run, mig, last_append, runs,
      wcsv, w_day, w_runs, w_prev, w_last, p_call, p_done, p_out,
      c_pc, c_log, c_local, c_drive, c_token,
      j_csv, j_inst,
      h_run,
      b_run>>

(***************************************************************************)
(* Strings                                                                 *)
(***************************************************************************)
UpperChars == <<"A","B","C","D","E","F","G","H","I","J","K","L","M","N","O","P","Q","R","S","T","U","V","W","X","Y","Z">>
LowerChars == <<"a","b","c","d","e","f","g","h","i","j","k","l","m","n","o","p","q","r","s","t","u","v","w","x","y","z">>
DigitChars == <<"0","1","2","3","4","5","6","7","8","9">>
Whitespace == {" ", "\t", "\n"}

Range(s) == {s[i] : i \in DOMAIN s}
SetMin(S) == CHOOSE x \in S : \A y \in S : x <= y
SetMax(S) == CHOOSE x \in S : \A y \in S : x >= y

char_lower(c) ==
    IF \E i \in DOMAIN UpperChars : UpperChars[i] = c
    THEN LowerChars[CHOOSE i \in DOMAIN UpperChars : UpperChars[i] = c]
    ELSE c

char_isalnum(c) == c \in Range(UpperChars) \cup Range(LowerChars) \cup Range(DigitChars)

\* str.lower()
str_lower(s) == [i \in 1..Len(s) |-> char_lower(s[i])]

\* str.replace(a, b) for one-character a and b
str_replace(s, a, b) == [i \in 1..Len(s) |-> IF s[i] = a THEN b ELSE s[i]]

\* str.strip()
StripTo(s, keep) == IF keep = {} THEN <<>> ELSE SubSeq(s, SetMin(keep), SetMax(keep))

str_strip(s) == StripTo(s, {i \in 1..Len(s) : s[i] \notin Whitespace})

\* h in s (substring test)
str_contains(h, s) == \E i \in 0..(Len(s) - Len(h)) : SubSeq(s, i + 1, i + Len(h)) = h

(***************************************************************************)
(* Python values                                                           *)
(***************************************************************************)
None == [tag |-> "none"]
PyInt(n) == [tag |-> "int", n |-> n]
PyFloat(h) == [tag |-> "float", n |-> h]      \* h is the value in thousandths
PyStr(s) == [tag |-> "str", s |-> s]
PyDict(items) == [tag |-> "dict", items |-> items]   \* items: sequence of <<key, value>>
PyList(items) == [tag |-> "list", items |-> items]

\* bool(v)
Truthy(v) ==
    CASE v.tag = "none" -> FALSE
      [] v.tag = "int" -> v.n # 0
      [] v.tag = "float" -> v.n # 0
      [] v.tag = "str" -> v.s # <<>>
      [] v.tag = "dict" -> v.items # <<>>
      [] v.tag = "list" -> v.items # <<>>

\* str(n) for an integer n
RECURSIVE NatStr(_)
NatStr(n) == IF n < 10 THEN <<DigitChars[n + 1]>> ELSE NatStr(n \div 10) \o <<DigitChars[(n % 10) + 1]>>

IntStr(n) == IF n < 0 THEN <<"-">> \o NatStr(-n) ELSE NatStr(n)

\* the decimals Python prints for a fraction of f thousandths: at least one
\* digit, no trailing zero after it (0 -> "0", 500 -> "5", 450 -> "45", 5 -> "005")
FracDigits(f) ==
    IF f % 100 = 0 THEN <<DigitChars[(f \div 100) + 1]>>
    ELSE IF f % 10 = 0 THEN <<DigitChars[(f \div 100) + 1], DigitChars[((f \div 10) % 10) + 1]>>
    ELSE <<DigitChars[(f \div 100) + 1], DigitChars[((f \div 10) % 10) + 1],
           DigitChars[(f % 10) + 1]>>

\* str(x) for a float x held in thousandths (250.0, 237.5, 0.833)
FloatStr(h) ==
    IF h < 0 THEN <<"-">> \o NatStr((-h) \div 1000) \o <<".">> \o FracDigits((-h) % 1000)
    ELSE NatStr(h \div 1000) \o <<".">> \o FracDigits(h % 1000)

\* str(v) for the values the scripts convert to text
py_str(v) ==
    CASE v.tag = "none" -> <<"N","o","n","e">>
      [] v.tag = "int" -> IntStr(v.n)
      [] v.tag = "float" -> FloatStr(v.n)
      [] v.tag = "str" -> v.s

\* a or b
py_or(a, b) == IF Truthy(a) THEN a ELSE b

\* d.get(key) on a mapping held as a sequence of <<key, value>> items
dict_get(d, key) ==
    IF \E i \in 1..Len(d.items) : d.items[i][1] = key
    THEN d.items[CHOOSE i \in 1..Len(d.items) : d.items[i][1] = key][2]
    ELSE None

\* the digits of s as a number; s is a non-empty digit string
RECURSIVE DigitsVal(_)
DigitsVal(s) ==
    IF s = <<>> THEN 0
    ELSE 10 * DigitsVal(SubSeq(s, 1, Len(s) - 1))
         + (CHOOSE d \in 0..9 : DigitChars[d + 1] = s[Len(s)])

IsDigits(s) == s # <<>> /\ \A i \in 1..Len(s) : s[i] \in Range(DigitChars)

\* float(s) for a string: surrounding blanks are ignored; an optional sign,
\* digits and at most three decimals are read (the value in thousandths); any
\* other text raises ValueError, reported as ok = FALSE
FractionVal(fp) ==
    IF fp = <<>> THEN 0
    ELSE IF Len(fp) = 1 THEN 100 * DigitsVal(fp)
    ELSE IF Len(fp) = 2 THEN 10 * DigitsVal(fp)
    ELSE DigitsVal(fp)

\* the number with integer digits ip and decimals fp, when they are well formed
ParseParts(sign, ip, fp, ndots) ==
    IF /\ ndots <= 1
       /\ (IsDigits(ip) \/ (ip = <<>> /\ fp # <<>>))
       /\ (fp = <<>> \/ (IsDigits(fp) /\ Len(fp) <= 3))
    THEN [ok |-> TRUE, n |-> sign * (1000 * DigitsVal(ip) + FractionVal(fp))]
    ELSE [ok |-> FALSE, n |-> 0]

ParseUnsigned(sign, u, dots) ==
    ParseParts(sign,
               IF dots = {} THEN u ELSE SubSeq(u, 1, SetMin(dots) - 1),
               IF dots = {} THEN <<>> ELSE SubSeq(u, SetMin(dots) + 1, Len(u)),
               Cardinality(dots))

ParseSigned(sign, u) == ParseUnsigned(sign, u, {i \in 1..Len(u) : u[i] = "."})

ParseStripped(t) ==
    IF t # <<>> /\ t[1] \in {"-", "+"}
    THEN ParseSigned(IF t[1] = "-" THEN -1 ELSE 1, Tail(t))
    ELSE ParseSigned(1, t)

ParseFloat(s) == ParseStripped(str_strip(s))

(***************************************************************************)
(* activity_filter.py                                                      *)
(***************************************************************************)
_norm(s) == str_replace(str_lower(str_strip(s)), " ", "_")

allows_NoExclude(flt, activity_type) ==
    IF ~Truthy(activity_type) THEN FALSE
    ELSE _norm(activity_type.s) \in flt.include_types

\* the two set tests of allows on the normalized label t
label_allowed(flt, t) == IF t \in flt.exclude_types THEN FALSE ELSE t \in flt.include_types

allows(flt, activity_type) ==
    IF ~Truthy(activity_type) THEN FALSE ELSE label_allowed(flt, _norm(activity_type.s))

\* type labels a filter file may list, as load_activity_filter normalizes them
FilterLabels == {<<"r","u","n","n","i","n","g">>, <<"v","i","r","t","u","a","l","_","r","i","d","e">>, <<"s","w","i","m","m","i","n","g">>, <<>>}

ActivityFilters == [include_types : SUBSET FilterLabels, exclude_types : SUBSET FilterLabels]

\* arguments of allows: None, or the string normalize_activity_type returned
FilterTypeArgs ==
    {None, PyStr(<<>>), PyStr(<<" ">>), PyStr(<<"r","u","n","n","i","n","g">>), PyStr(<<"R","u","n","n","i","n","g">>),
     PyStr(<<"V","i","r","t","u","a","l"," ","R","i","d","e">>), PyStr(<<" ","v","i","r","t","u","a","l"," ","r","i","d","e"," ">>), PyStr(<<"v","i","r","t","u","a","l","_","r","i","d","e">>),
     PyStr(<<"s","w","i","m","m","i","n","g">>), PyStr(<<"y","o","g","a">>)}

FilterInit ==
    /\ f_flt \in ActivityFilters
    /\ f_type \in FilterTypeArgs
    /\ f_res = allows(f_flt, f_type)

\* one call of ActivityFilter.allows on the loaded filter
Allows ==
    /\ f_type' \in FilterTypeArgs
    /\ f_res' = allows(f_flt, f_type')
    /\ UNCHANGED <<f_flt, notFilterVars>>

(***************************************************************************)
(* garmin_activities_daily.py / garmin_activities_history.py: helpers      *)
(* (the two scripts define these functions identically)                    *)
(***************************************************************************)
normalize_key(s) == str_replace(str_lower(str_strip(s)), " ", "_")

_norm_key(k) == SelectSeq(str_lower(k), char_isalnum)

\* "return x if x > 0 else None" for a parsed string
PositiveOrNone(p) == IF p.ok /\ p.n > 0 THEN PyFloat(p.n) ELSE None

\* float(v) whatever its sign, None on a conversion error
safe_float_AnySign(v) ==
    CASE v.tag = "none" -> None
      [] v.tag = "int" -> PyFloat(1000 * v.n)
      [] v.tag = "float" -> PyFloat(v.n)
      [] v.tag = "str" -> IF ParseFloat(v.s).ok THEN PyFloat(ParseFloat(v.s).n) ELSE None
      [] v.tag \in {"dict", "list"} -> None

\* float(v) > 0, else None; any conversion error gives None
safe_float(v) ==
    CASE v.tag = "none" -> None
      [] v.tag = "int" -> IF v.n > 0 THEN PyFloat(1000 * v.n) ELSE None
      [] v.tag = "float" -> IF v.n > 0 THEN PyFloat(v.n) ELSE None
      [] v.tag = "str" -> PositiveOrNone(ParseFloat(v.s))
      [] v.tag \in {"dict", "list"} -> None

\* the three "or" of normalize_activity_type for a non-mapping activityType
flat_activity_type(act) ==
    py_or(py_or(py_or(dict_get(act, <<"a","c","t","i","v","i","t","y","T","y","p","e">>), dict_get(act, <<"a","c","t","i","v","i","t","y","T","y","p","e","N","a","m","e">>)),
                dict_get(act, <<"a","c","t","i","v","i","t","y","_","t","y","p","e">>)),
          PyStr(<<>>))

\* "str(t.get("typeKey") or t.get("typeName") or "")" when t is a mapping
nested_activity_type(t) ==
    py_or(py_or(dict_get(t, <<"t","y","p","e","K","e","y">>), dict_get(t, <<"t","y","p","e","N","a","m","e">>)), PyStr(<<>>))

normalize_activity_type(act) ==
    IF dict_get(act, <<"a","c","t","i","v","i","t","y","T","y","p","e">>).tag = "dict"
    THEN py_str(nested_activity_type(dict_get(act, <<"a","c","t","i","v","i","t","y","T","y","p","e">>)))
    ELSE py_str(flat_activity_type(act))

\* "return None if v is None else str(v)"
str_or_none(v) == IF v = None THEN None ELSE PyStr(py_str(v))

coerce_activity_id(act) ==
    str_or_none(py_or(py_or(dict_get(act, <<"a","c","t","i","v","i","t","y","I","d">>), dict_get(act, <<"a","c","t","i","v","i","t","y","_","i","d">>)),
                      dict_get(act, <<"i","d">>)))

\* "if any(h in kl for h in key_hints): val = safe_float(v)" for one item
scan_hit(k, v, key_hints) ==
    IF \E h \in key_hints : str_contains(h, str_lower(k)) THEN safe_float(v) ELSE None

RECURSIVE scan_for_keys(_, _)
RECURSIVE scan_dict_items(_, _, _)
RECURSIVE scan_list_items(_, _, _)

\* the "for k, v in obj.items()" loop of scan_for_keys, from item i on: the
\* first truthy of the item's own value, the scan of the value, the rest
scan_dict_items(items, i, key_hints) ==
    IF i > Len(items) THEN None
    ELSE py_or(scan_hit(items[i][1], items[i][2], key_hints),
               py_or(scan_for_keys(items[i][2], key_hints),
                     scan_dict_items(items, i + 1, key_hints)))

\* the "for item in obj" loop of scan_for_keys, from item i on
scan_list_items(items, i, key_hints) ==
    IF i > Len(items) THEN None
    ELSE py_or(scan_for_keys(items[i], key_hints), scan_list_items(items, i + 1, key_hints))

scan_for_keys(obj, key_hints) ==
    CASE obj.tag = "none" -> None
      [] obj.tag \in {"int", "float"} -> safe_float(obj)
      [] obj.tag = "dict" -> scan_dict_items(obj.items, 1, key_hints)
      [] obj.tag = "list" -> scan_list_items(obj.items, 1, key_hints)
      [] obj.tag = "str" -> None

FtpAllowedKeys ==
    {<<"f","u","n","c","t","i","o","n","a","l","t","h","r","e","s","h","o","l","d","p","o","w","e","r">>, <<"l","a","t","e","s","t","f","u","n","c","t","i","o","n","a","l","t","h","r","e","s","h","o","l","d","p","o","w","e","r">>, <<"t","h","r","e","s","h","o","l","d","p","o","w","e","r">>,
     <<"f","t","p">>, <<"f","t","p","w","a","t","t","s">>, <<"c","y","c","l","i","n","g","f","t","p">>}

FtpMinWatts == 50
FtpMaxWatts == 1200

\* val and 50 <= val <= 1200, for val a float or None
InFtpBounds(val) == Truthy(val) /\ 1000 * FtpMinWatts <= val.n /\ val.n <= 1000 * FtpMaxWatts

\* the first of val and vv that is a number, whatever its size
first_in_bounds_Unbounded(val, vv) == IF Truthy(val) THEN val ELSE vv

\* the first of val and vv within the sanity bounds
first_in_bounds(val, vv) ==
    IF InFtpBounds(val) THEN val ELSE IF InFtpBounds(vv) THEN vv ELSE None

\* the "if nk in allowed" block of walk for one item: the value itself, or
\* the "value" entry of a nested mapping
walk_hit(k, v) ==
    IF _norm_key(k) \notin FtpAllowedKeys THEN None
    ELSE first_in_bounds(safe_float(v),
                         IF v.tag = "dict" THEN safe_float(dict_get(v, <<"v","a","l","u","e">>)) ELSE None)

RECURSIVE walk(_)
RECURSIVE walk_dict_items(_, _)
RECURSIVE walk_list_items(_, _)

\* the "for k, v in x.items()" loop of walk, from item i on
walk_dict_items(items, i) ==
    IF i > Len(items) THEN None
    ELSE py_or(walk_hit(items[i][1], items[i][2]),
               py_or(walk(items[i][2]), walk_dict_items(items, i + 1)))

\* the "for item in x" loop of walk, from item i on
walk_list_items(items, i) ==
    IF i > Len(items) THEN None
    ELSE py_or(walk(items[i]), walk_list_items(items, i + 1))

walk(x) ==
    CASE x.tag = "dict" -> walk_dict_items(x.items, 1)
      [] x.tag = "list" -> walk_list_items(x.items, 1)
      [] OTHER -> None

extract_ftp_watts_strict(obj) == walk(obj)

Best20mHints ==
    {<<"2","0","m","i","n">>, <<"2","0","_","m","i","n">>, <<"2","0","-","m","i","n">>, <<"m","a","x","a","v","g","p","o","w","e","r">>, <<"m","a","x","_","a","v","g","_","p","o","w","e","r">>, <<"m","a","x","a","v","e","r","a","g","e","p","o","w","e","r">>,
     <<"b","e","s","t","2","0">>, <<"b","e","s","t","_","2","0">>}

NormalizedPowerHints == {<<"n","o","r","m","a","l","i","z","e","d","p","o","w","e","r">>, <<"w","e","i","g","h","t","e","d","m","e","a","n","p","o","w","e","r">>, <<"w","e","i","g","h","t","e","d","_","p","o","w","e","r">>}

extract_best_20m_power_w(detail) == scan_for_keys(detail, Best20mHints)

extract_normalized_power_w(detail) == scan_for_keys(detail, NormalizedPowerHints)

(***************************************************************************)
(* FTP resolution (resolve_ftp and the calls it makes).                    *)
(*                                                                         *)
(* The upstream service is a record api:                                   *)
(*   has_get_cycling_ftp, get_cycling_ftp     the client method, if any    *)
(*   biometric                                garth.connectapi(biometric)  *)
(*   acts_empty, acts_none    get_activities_by_date(start, today, ""/None)*)
(*   has_get_activity_details, detail_method, detail_endpoint, detail_rest *)
(* Every response is a Python value or Raise (the call raised).  A         *)
(* resolver returns the value and the upstream calls it made, in order.    *)
(***************************************************************************)
Raise == [tag |-> "raise"]

Call(op, arg) == [op |-> op, arg |-> arg]

\* the response of a detail call for activity_id: ids outside the domain of
\* the api's response table get the table's common response detail_rest
DetailResponse(table, rest, activity_id) ==
    IF activity_id \in DOMAIN table THEN table[activity_id] ELSE rest

\* the calls the settings tier makes to the client method
MethodCalls(api) ==
    IF api.has_get_cycling_ftp THEN <<Call("get_cycling_ftp", <<>>)>> ELSE <<>>

\* "try: data = fn(); ftp = extract_ftp_watts_strict(data) ... except: pass"
method_ftp(api) ==
    IF api.has_get_cycling_ftp /\ api.get_cycling_ftp # Raise
    THEN extract_ftp_watts_strict(api.get_cycling_ftp) ELSE None

\* the same for garth.connectapi(biometric endpoint)
endpoint_ftp(api) ==
    IF api.biometric = Raise THEN None ELSE extract_ftp_watts_strict(api.biometric)

\* "if ftp: return ftp" after the method, else the endpoint's value
settings_result(viaMethod, viaEndpoint, mCalls) ==
    IF Truthy(viaMethod) THEN [value |-> viaMethod, calls |-> mCalls]
    ELSE [value |-> viaEndpoint, calls |-> mCalls \o <<Call("biometric_endpoint", <<>>)>>]

\* bug: the client method is called outside a try block
get_cycling_ftp_from_settings_NoTry(api) ==
    IF api.has_get_cycling_ftp /\ api.get_cycling_ftp = Raise
    THEN [value |-> Raise, calls |-> MethodCalls(api)]
    ELSE settings_result(method_ftp(api), endpoint_ftp(api), MethodCalls(api))

get_cycling_ftp_from_settings(api) ==
    settings_result(method_ftp(api), endpoint_ftp(api), MethodCalls(api))

\* the method's mapping if it gave one, else the endpoint's, else {}
detail_result(hasMethod, m, e, activity_id) ==
    IF hasMethod /\ m # Raise /\ m.tag = "dict"
    THEN [value |-> m, calls |-> <<Call("get_activity_details", activity_id)>>]
    ELSE [value |-> IF e # Raise /\ e.tag = "dict" THEN e ELSE PyDict(<<>>),
          calls |-> (IF hasMethod THEN <<Call("get_activity_details", activity_id)>> ELSE <<>>)
                    \o <<Call("activity_endpoint", activity_id)>>]

fetch_activity_detail(api, activity_id) ==
    detail_result(api.has_get_activity_details,
                  DetailResponse(api.detail_method, api.detail_rest, activity_id),
                  DetailResponse(api.detail_endpoint, api.detail_rest, activity_id),
                  activity_id)

\* activity types whose best 20 minute power feeds the FTP estimate
FtpFallbackTypes == {<<"v","i","r","t","u","a","l","_","r","i","d","e">>, <<"i","n","d","o","o","r","_","c","y","c","l","i","n","g">>, <<"s","p","i","n","n","i","n","g">>}

\* guardrail of resolve_ftp: detail fetches per resolution
MaxChecked == 60

\* FTP_DETAIL_SLEEP_S, in hundredths of a second (default "0.10")
FTP_DETAIL_SLEEP_S == 10

\* "if v and (best_20m is None or v > best_20m): best_20m = v"
better_20m(v, best_20m) ==
    IF Truthy(v) /\ (best_20m = None \/ v.n > best_20m.n) THEN v ELSE best_20m

\* the loop state after one ride's detail d was fetched and scanned
checked_ride(st, d) ==
    [best_20m |-> better_20m(extract_best_20m_power_w(d.value), st.best_20m),
     checked |-> st.checked + 1,
     calls |-> st.calls \o d.calls
               \o (IF FTP_DETAIL_SLEEP_S # 0 THEN <<Call("sleep", <<>>)>> ELSE <<>>),
     raised |-> FALSE]

RECURSIVE ftp_scan(_, _, _, _)

\* the loop without its guardrail
ftp_guardrail_Unbounded(api, activities, i, st) == ftp_scan(api, activities, i + 1, st)

\* "if checked >= 60: break"
ftp_guardrail(api, activities, i, st) ==
    IF st.checked >= MaxChecked THEN st ELSE ftp_scan(api, activities, i + 1, st)

\* one element of the list, a mapping with type key tkey and identifier act_id
ftp_visit(api, activities, i, st, tkey, act_id) ==
    IF tkey \notin FtpFallbackTypes \/ ~Truthy(act_id)
    THEN ftp_scan(api, activities, i + 1, st)
    ELSE ftp_guardrail(api, activities, i,
                       checked_ride(st, fetch_activity_detail(api, act_id.s)))

\* the "for act in activities" loop of resolve_ftp from element i on;
\* st = [best_20m, checked, calls, raised]
ftp_scan(api, activities, i, st) ==
    IF i > Len(activities) THEN st
    ELSE IF activities[i].tag # "dict"
    THEN [st EXCEPT !.raised = TRUE]      \* act.get: AttributeError, not caught
    ELSE ftp_visit(api, activities, i, st,
                   normalize_key(normalize_activity_type(activities[i])),
                   coerce_activity_id(activities[i]))

FtpResult(ftp_watts, source, best_20m_watts) ==
    [ftp_watts |-> ftp_watts, source |-> source, best_20m_watts |-> best_20m_watts]

FtpMissing == FtpResult(None, <<"m","i","s","s","i","n","g">>, None)

\* bug: the 0.95 factor is dropped
FtpEstimate_Unscaled(best_20m) == best_20m

\* 0.95 * best_20m (exact for the whole-watt inputs used here)
FtpEstimate(best_20m) == PyFloat((95 * best_20m.n) \div 100)

\* the activity list resolve_ftp ends up with; None when the fallback call
\* of the inner except raised as well (caught by the outer try)
FtpActivityFetch(api) ==
    IF api.acts_empty # Raise
    THEN [value |-> api.acts_empty,
          calls |-> <<Call("get_activities_by_date", <<"'","'">>)>>]
    ELSE [value |-> IF api.acts_none = Raise THEN None ELSE api.acts_none,
          calls |-> <<Call("get_activities_by_date", <<"'","'">>),
                      Call("get_activities_by_date", <<"N","o","n","e">>)>>]

FtpOutcome(raised, res, calls) == [raised |-> raised, res |-> res, calls |-> calls]

\* what resolve_ftp returns after the loop ended in state st
fallback_result(st) ==
    IF st.raised THEN FtpOutcome(TRUE, FtpMissing, st.calls)
    ELSE IF ~Truthy(st.best_20m) THEN FtpOutcome(FALSE, FtpMissing, st.calls)
    ELSE IF ~InFtpBounds(FtpEstimate(st.best_20m)) THEN FtpOutcome(FALSE, FtpMissing, st.calls)
    ELSE FtpOutcome(FALSE,
                    FtpResult(FtpEstimate(st.best_20m), <<"v","i","r","t","u","a","l","_","r","i","d","e","_","b","e","s","t","_","2","0","m">>, st.best_20m),
                    st.calls)

\* the fallback once the list call returned f = [value, calls]
fallback_on(api, f, calls0) ==
    IF ~Truthy(f.value) THEN FtpOutcome(FALSE, FtpMissing, calls0 \o f.calls)
    ELSE fallback_result(ftp_scan(api, f.value.items, 1,
                                  [best_20m |-> None, checked |-> 0,
                                   calls |-> calls0 \o f.calls, raised |-> FALSE]))

\* the fallback tier of resolve_ftp (from "today = date.today()" on), entered
\* with the calls made so far; result: [raised, res (FtpResult), calls]
resolve_ftp_fallback(api, calls0) == fallback_on(api, FtpActivityFetch(api), calls0)

\* the fallback's result if it found a value, else the settings value s
fallback_then_settings(s, fb) ==
    IF s.value = Raise THEN FtpOutcome(TRUE, FtpMissing, s.calls)
    ELSE IF fb.raised \/ fb.res.source # <<"m","i","s","s","i","n","g">> THEN fb
    ELSE IF Truthy(s.value)
    THEN FtpOutcome(FALSE, FtpResult(s.value, <<"g","a","r","m","i","n","_","s","e","t","t","i","n","g","s">>, None), fb.calls)
    ELSE fb

\* the settings value s if there is one, else the fallback
settings_then_fallback(api, s) ==
    IF s.value = Raise THEN FtpOutcome(TRUE, FtpMissing, s.calls)
    ELSE IF Truthy(s.value)
    THEN FtpOutcome(FALSE, FtpResult(s.value, <<"g","a","r","m","i","n","_","s","e","t","t","i","n","g","s">>, None), s.calls)
    ELSE resolve_ftp_fallback(api, s.calls)

\* bug: the fallback runs before the settings value is looked at
resolve_ftp_FallbackFirst(api) ==
    fallback_then_settings(get_cycling_ftp_from_settings(api),
                           resolve_ftp_fallback(api, get_cycling_ftp_from_settings(api).calls))

\* result: [raised, res (FtpResult), calls]
resolve_ftp(api) == settings_then_fallback(api, get_cycling_ftp_from_settings(api))

(***************************************************************************)
(* ftp_resolver.py: the resolver of the module.  Its _try_float,           *)
(* _scan_for_keys, extract_best_20m_power_w and fetch_activity_detail have *)
(* the text of safe_float, scan_for_keys, extract_best_20m_power_w and     *)
(* fetch_activity_detail of the scripts.  api.connectapi and               *)
(* garth.connectapi ask the same biometric endpoint (api.biometric).       *)
(***************************************************************************)
_try_float(v) == safe_float(v)

_scan_for_keys(obj, key_hints) == scan_for_keys(obj, key_hints)

\* the hints get_cycling_ftp_from_settings of the module scans for
SettingsHints == {<<"f","u","n","c","t","i","o","n","a","l","t","h","r","e","s","h","o","l","d","p","o","w","e","r">>, <<"t","h","r","e","s","h","o","l","d","p","o","w","e","r">>, <<"f","t","p">>, <<"f","t","p","w","a","t","t","s">>}

\* "data = fn(); ftp = _scan_for_keys(data, ...); return ftp" for the client
\* method unless it is missing or raises, else the same on the endpoint, else
\* None
ftp_resolver_get_cycling_ftp_from_settings(api) ==
    IF api.has_get_cycling_ftp /\ api.get_cycling_ftp # Raise
    THEN _scan_for_keys(api.get_cycling_ftp, SettingsHints)
    ELSE IF api.biometric # Raise THEN _scan_for_keys(api.biometric, SettingsHints)
    ELSE None

\* (t.get("typeKey") or ...).strip().lower().replace(" ", "_")
_activity_type_key(act) == normalize_key(normalize_activity_type(act))

RECURSIVE rides_scan(_, _, _, _)

\* one element of the list of ftp_from_virtual_rides, a mapping
rides_visit(api, activities, i, best_20m, act_id) ==
    IF _activity_type_key(activities[i]) \notin FtpFallbackTypes \/ ~Truthy(act_id)
    THEN rides_scan(api, activities, i + 1, best_20m)
    ELSE rides_scan(api, activities, i + 1,
                    better_20m(extract_best_20m_power_w(fetch_activity_detail(api, act_id.s).value),
                               best_20m))

\* the "for act in activities" loop of ftp_from_virtual_rides from element i
\* on: the best 20 minute power, or Raise (act.get on what is not a mapping)
rides_scan(api, activities, i, best_20m) ==
    IF i > Len(activities) THEN best_20m
    ELSE IF activities[i].tag # "dict" THEN Raise
    ELSE rides_visit(api, activities, i, best_20m, coerce_activity_id(activities[i]))

\* "if not best_20m: return missing; ftp = 0.95 * best_20m; return ..."
rides_result(best_20m) ==
    IF best_20m = Raise THEN Raise
    ELSE IF ~Truthy(best_20m) THEN FtpMissing
    ELSE FtpResult(FtpEstimate(best_20m), <<"v","i","r","t","u","a","l","_","r","i","d","e","_","b","e","s","t","_","2","0","m">>, best_20m)

ftp_from_virtual_rides(api) ==
    IF ~Truthy(FtpActivityFetch(api).value) THEN FtpMissing
    ELSE rides_result(rides_scan(api, FtpActivityFetch(api).value.items, 1, None))

\* "if ftp: return FtpResult(ftp, "garmin_settings", None)"
settings_or_rides(api, ftp) ==
    IF Truthy(ftp) THEN FtpResult(ftp, <<"g","a","r","m","i","n","_","s","e","t","t","i","n","g","s">>, None)
    ELSE ftp_from_virtual_rides(api)

\* resolve_ftp of ftp_resolver.py: an FtpResult, or Raise
ftp_resolver_resolve_ftp(api) ==
    settings_or_rides(api, ftp_resolver_get_cycling_ftp_from_settings(api))

(***************************************************************************)
(* One FTP resolution against an arbitrary upstream                        *)
(***************************************************************************)
Item(k, v) == <<k, v>>

TypeKeyDict(t) == PyDict(<<Item(<<"t","y","p","e","K","e","y">>, PyStr(t))>>)

\* upstream activity records of the lookback list
ActVirtualRide1 ==
    PyDict(<<Item(<<"a","c","t","i","v","i","t","y","I","d">>, PyInt(1)), Item(<<"a","c","t","i","v","i","t","y","T","y","p","e">>, TypeKeyDict(<<"v","i","r","t","u","a","l","_","r","i","d","e">>))>>)
ActIndoorCycling2 ==
    PyDict(<<Item(<<"a","c","t","i","v","i","t","y","I","d">>, PyInt(2)), Item(<<"a","c","t","i","v","i","t","y","T","y","p","e","N","a","m","e">>, PyStr(<<"I","n","d","o","o","r"," ","C","y","c","l","i","n","g">>))>>)
ActRunning3 ==
    PyDict(<<Item(<<"a","c","t","i","v","i","t","y","I","d">>, PyInt(3)), Item(<<"a","c","t","i","v","i","t","y","T","y","p","e">>, TypeKeyDict(<<"r","u","n","n","i","n","g">>))>>)
ActSpinningNoId ==
    PyDict(<<Item(<<"a","c","t","i","v","i","t","y","T","y","p","e">>, TypeKeyDict(<<"s","p","i","n","n","i","n","g">>))>>)
ActNotAMapping == PyStr(<<"e","r","r","o","r">>)

\* the n-th of a run of distinct virtual rides (ids 101, 102, ...)
PadRide(n) ==
    PyDict(<<Item(<<"a","c","t","i","v","i","t","y","I","d">>, PyInt(100 + n)), Item(<<"a","c","t","i","v","i","t","y","T","y","p","e">>, TypeKeyDict(<<"v","i","r","t","u","a","l","_","r","i","d","e">>))>>)

PadRides(n) == [i \in 1..n |-> PadRide(i)]

\* bound: length of the freely chosen activity lists
MaxFtpActs == 2

FtpActs == {ActVirtualRide1, ActIndoorCycling2, ActRunning3, ActSpinningNoId, ActNotAMapping}

SeqsUpTo(S, n) == UNION {[1..k -> S] : k \in 0..n}

\* lists long enough to meet the guardrail: MaxChecked - 1 or MaxChecked
\* rides, then one more element
LongLists ==
    {PadRides(n) \o <<a>> : n \in {MaxChecked - 1, MaxChecked},
                            a \in {ActVirtualRide1, ActNotAMapping}}
    \cup {PadRides(MaxChecked - 1) \o <<ActRunning3, ActSpinningNoId, ActVirtualRide1, ActIndoorCycling2>>}

FtpListResponses == {Raise, None} \cup {PyList(s) : s \in SeqsUpTo(FtpActs, MaxFtpActs)}

FtpSettingsResponses ==
    {Raise, None,
     PyDict(<<Item(<<"f","u","n","c","t","i","o","n","a","l","T","h","r","e","s","h","o","l","d","P","o","w","e","r">>, PyInt(250))>>),
     PyDict(<<Item(<<"u","s","e","r","I","d">>, PyInt(999)),
              Item(<<"u","s","e","r","D","a","t","a">>, PyDict(<<Item(<<"F","T","P">>, PyDict(<<Item(<<"v","a","l","u","e">>, PyStr(<<"2","6","0">>))>>))>>))>>),
     PyDict(<<Item(<<"f","t","p">>, PyInt(30))>>)}

FtpBiometricResponses == {Raise, None, PyDict(<<Item(<<"c","y","c","l","i","n","g","F","t","p">>, PyInt(300))>>)}

FtpDetailResponses ==
    {Raise,
     PyDict(<<Item(<<"m","a","x","A","v","g","P","o","w","e","r","_","2","0","m","i","n">>, PyInt(250))>>),
     PyDict(<<Item(<<"s","u","m","m","a","r","y","D","T","O">>, PyDict(<<Item(<<"m","a","x","A","v","g","P","o","w","e","r","_","2","0","M","i","n">>, PyInt(1300))>>))>>),
     PyDict(<<Item(<<"m","a","x","A","v","g","P","o","w","e","r","_","2","0","m","i","n">>, PyInt(40))>>)}

FtpDetailIds == {<<"1">>, <<"2">>}

FtpEndpointTables ==
    {[i \in FtpDetailIds |-> Raise],
     [i \in FtpDetailIds |-> PyDict(<<Item(<<"b","e","s","t","_","2","0","_","w">>, PyInt(300))>>)]}

PadDetail == PyDict(<<Item(<<"m","a","x","A","v","g","P","o","w","e","r","_","2","0","m","i","n">>, PyInt(100))>>)

FtpApi(hasFtp, ftp, bio, l1, l2, hasDet, dm, de) ==
    [has_get_cycling_ftp |-> hasFtp, get_cycling_ftp |-> ftp, biometric |-> bio,
     acts_empty |-> l1, acts_none |-> l2,
     has_get_activity_details |-> hasDet, detail_method |-> dm, detail_endpoint |-> de,
     detail_rest |-> PadDetail]

\* a client without the method has no response for it
FtpMethodChoices == {<<FALSE, None>>} \cup {<<TRUE, r>> : r \in FtpSettingsResponses}

FtpDetailChoices ==
    {<<FALSE, [i \in FtpDetailIds |-> Raise]>>}
    \cup {<<TRUE, t>> : t \in [FtpDetailIds -> FtpDetailResponses]}

\* the lists tried against every settings response
FewListResponses ==
    {Raise, None, PyList(<<ActVirtualRide1>>), PyList(<<ActVirtualRide1, ActIndoorCycling2>>),
     PyList(<<ActNotAMapping>>)}

\* every settings response, with a few activity lists
SettingsApis ==
    {FtpApi(m[1], m[2], bio, l1, l2, d[1], d[2], de) :
        m \in FtpMethodChoices, bio \in FtpBiometricResponses,
        l1 \in FewListResponses, l2 \in {Raise, PyList(<<ActVirtualRide1>>)},
        d \in FtpDetailChoices, de \in FtpEndpointTables}

\* every short activity list, with a settings tier that yields nothing
ShortListApis ==
    {FtpApi(m[1], m[2], bio, l1, l2, d[1], d[2], de) :
        m \in {<<FALSE, None>>, <<TRUE, Raise>>}, bio \in {Raise, None},
        l1 \in FtpListResponses, l2 \in {Raise, PyList(<<ActVirtualRide1>>)},
        d \in FtpDetailChoices, de \in FtpEndpointTables}

\* upstreams whose settings tier yields nothing and whose list meets the guardrail
LongListApis ==
    {FtpApi(FALSE, None, bio, PyList(l1), Raise, TRUE, [i \in FtpDetailIds |-> r], de) :
        bio \in {Raise, PyDict(<<Item(<<"c","y","c","l","i","n","g","F","t","p">>, PyInt(300))>>)},
        l1 \in LongLists, r \in FtpDetailResponses, de \in FtpEndpointTables}

FtpApis == SettingsApis \cup ShortListApis \cup LongListApis

FtpIdle == [raised |-> FALSE, res |-> FtpMissing, calls |-> <<>>]

FtpInit ==
    /\ r_api \in FtpApis
    /\ r_done = FALSE
    /\ r_out = FtpIdle

\* resolve_ftp(api), called once
Resolve ==
    /\ ~r_done
    /\ r_done' = TRUE
    /\ r_out' = resolve_ftp(r_api)
    /\ UNCHANGED <<r_api, notFtpVars>>

(***************************************************************************)
(* The activity CSV                                                        *)
(*                                                                         *)
(* A file is [exists, rows]; rows is the sequence of its lines as the csv  *)
(* module reads them, each a sequence of cells, each cell a string.  The   *)
(* header is the first line.                                               *)
(***************************************************************************)
DESIRED_FIELDS ==
    <<<<"a","c","t","i","v","i","t","y","_","i","d">>, <<"d","a","t","e">>, <<"t","i","m","e">>, <<"s","t","a","r","t","_","t","i","m","e","_","l","o","c","a","l">>, <<"t","i","t","l","e">>, <<"a","c","t","i","v","i","t","y","_","t","y","p","e">>,
      <<"d","i","s","t","a","n","c","e","_","m">>, <<"d","u","r","a","t","i","o","n","_","s">>, <<"c","a","l","o","r","i","e","s">>, <<"a","v","g","_","s","p","e","e","d","_","m","p","s">>, <<"m","a","x","_","s","p","e","e","d","_","m","p","s">>,
      <<"a","v","g","_","p","a","c","e","_","m","i","n","_","m","i","l","e">>, <<"a","v","g","_","h","r">>, <<"m","a","x","_","h","r">>, <<"r","u","n","n","i","n","g","_","c","a","d","e","n","c","e","_","s","p","m">>,
      <<"c","y","c","l","i","n","g","_","c","a","d","e","n","c","e","_","r","p","m">>, <<"a","v","g","_","p","o","w","e","r","_","w">>, <<"m","a","x","_","p","o","w","e","r","_","w">>, <<"e","l","e","v","a","t","i","o","n","_","g","a","i","n","_","m">>,
      <<"a","e","r","o","b","i","c","_","t","e">>, <<"a","n","a","e","r","o","b","i","c","_","t","e">>, <<"b","e","s","t","_","2","0","m","_","w","a","t","t","s">>, <<"f","t","p","_","w","a","t","t","s">>, <<"f","t","p","_","s","o","u","r","c","e">>,
      <<"n","o","r","m","a","l","i","z","e","d","_","p","o","w","e","r","_","w">>, <<"i","n","t","e","n","s","i","t","y","_","f","a","c","t","o","r">>, <<"t","s","s">>>>

CYCLING_TYPE_KEYS ==
    {<<"c","y","c","l","i","n","g">>, <<"r","o","a","d","_","c","y","c","l","i","n","g">>, <<"g","r","a","v","e","l","_","c","y","c","l","i","n","g">>, <<"m","o","u","n","t","a","i","n","_","b","i","k","i","n","g">>, <<"i","n","d","o","o","r","_","c","y","c","l","i","n","g">>,
     <<"v","i","r","t","u","a","l","_","r","i","d","e">>, <<"s","p","i","n","n","i","n","g">>}

AbsentFile == [exists |-> FALSE, rows |-> <<>>]
File(rows) == [exists |-> TRUE, rows |-> rows]

\* the cell csv.writer writes for a value: None becomes the empty string
CsvCell(v) == IF v = None THEN <<>> ELSE py_str(v)

\* the last position of name in header (csv.DictReader keeps the last
\* column of a repeated name); 0 when absent
ColumnOf(header, name) ==
    LET at == {i \in 1..Len(header) : header[i] = name}
    IN  IF at = {} THEN 0 ELSE SetMax(at)

\* row.get(name) for a line read by csv.DictReader under header: None when
\* the column is absent or the line is too short
DictGet(header, line, name) ==
    LET c == ColumnOf(header, name)
    IN  IF c = 0 \/ c > Len(line) THEN None ELSE PyStr(line[c])

\* the lines csv.DictReader yields: those after the header, blank ones skipped
DataLines(f) ==
    IF Len(f.rows) <= 1 THEN <<>>
    ELSE SelectSeq(SubSeq(f.rows, 2, Len(f.rows)), LAMBDA l : l # <<>>)

\* read_csv_header: None (here <<>>) for no file, an empty file or a failed read
read_csv_header(f, readFails) ==
    IF ~f.exists \/ readFails \/ f.rows = <<>> THEN <<>> ELSE f.rows[1]

\* the line migrate_csv_to_schema writes for one old line
MigratedLine(header, line) ==
    [j \in 1..Len(DESIRED_FIELDS) |-> CsvCell(DictGet(header, line, DESIRED_FIELDS[j]))]

MigratedRows(f) ==
    LET old == DataLines(f)
    IN  <<DESIRED_FIELDS>> \o [i \in 1..Len(old) |-> MigratedLine(f.rows[1], old[i])]

\* bug: the new file is written over the original instead of a temporary
\* file, so a failure while writing or replacing leaves it rewritten
migrate_csv_to_schema_InPlace(f, fail) ==
    LET header == read_csv_header(f, fail = "header")
    IN  IF header = <<>> THEN [file |-> f, status |-> IF fail = "header" THEN "failed" ELSE "skipped", raised |-> FALSE]
        ELSE IF header = DESIRED_FIELDS THEN [file |-> f, status |-> "skipped", raised |-> FALSE]
        ELSE IF fail = "read" THEN [file |-> f, status |-> "failed", raised |-> FALSE]
        ELSE IF fail \in {"write", "replace"}
        THEN [file |-> File(<<DESIRED_FIELDS>>), status |-> "failed", raised |-> FALSE]
        ELSE [file |-> File(MigratedRows(f)), status |-> "done", raised |-> FALSE]

\* bug: columns are copied by position instead of by name
migrate_csv_to_schema_ByPosition(f, fail) ==
    LET header == read_csv_header(f, fail = "header")
        old == DataLines(f)
    IN  IF header = <<>> \/ header = DESIRED_FIELDS \/ fail # "none"
        THEN [file |-> f, status |-> IF fail = "none" THEN "skipped" ELSE "failed", raised |-> FALSE]
        ELSE [file |-> File(<<DESIRED_FIELDS>> \o
                            [i \in 1..Len(old) |->
                                [j \in 1..Len(DESIRED_FIELDS) |->
                                    IF j <= Len(old[i]) THEN old[i][j] ELSE <<>>]]),
              status |-> "done", raised |-> FALSE]

\* migrate_csv_to_schema(csv_path, DESIRED_FIELDS) on file f.  fail names the
\* file-system call that raises: "none", "header" (the read in
\* read_csv_header), "read" (reading the old rows), "write" (writing the
\* temporary file) or "replace" (os.replace).  Every exception is caught, so
\* the function always returns (raised is FALSE); status tells what it did.
migrate_csv_to_schema(f, fail) ==
    LET header == read_csv_header(f, fail = "header")
    IN  IF header = <<>> THEN [file |-> f, status |-> IF fail = "header" THEN "failed" ELSE "skipped", raised |-> FALSE]
        ELSE IF header = DESIRED_FIELDS THEN [file |-> f, status |-> "skipped", raised |-> FALSE]
        ELSE IF fail \in {"read", "write", "replace"} THEN [file |-> f, status |-> "failed", raised |-> FALSE]
        ELSE [file |-> File(MigratedRows(f)), status |-> "done", raised |-> FALSE]

\* bug: the identifiers already stored are not looked up
load_existing_activity_ids_Empty(f, readFails) == {}

\* readFails: opening or reading the file raises (caught: the ids read so
\* far, here none, are returned)
load_existing_activity_ids(f, readFails) ==
    IF ~f.exists \/ readFails \/ f.rows = <<>> THEN {}
    ELSE LET lines == DataLines(f)
         IN  {DictGet(f.rows[1], lines[i], <<"a","c","t","i","v","i","t","y","_","i","d">>).s :
                 i \in {k \in 1..Len(lines) :
                           Truthy(DictGet(f.rows[1], lines[k], <<"a","c","t","i","v","i","t","y","_","i","d">>))}}

\* bug: the header is written on every append
append_rows_AlwaysHeader(f, rows) ==
    IF rows = <<>> THEN f
    ELSE File(f.rows \o <<DESIRED_FIELDS>> \o rows)

\* append_rows (history), and the same lines at the end of the daily main:
\* open in mode "a", header only when the file did not exist
append_rows(f, rows) ==
    IF rows = <<>> THEN f
    ELSE File(f.rows \o (IF ~f.exists THEN <<DESIRED_FIELDS>> ELSE <<>>) \o rows)

(***************************************************************************)
(* Row build (to_row) and the derived metrics                              *)
(***************************************************************************)
\* q + r / b rounded to the nearest integer, ties to even (Python's round)
RoundFrom(q, r, b) ==
    IF 2 * r < b THEN q
    ELSE IF 2 * r > b THEN q + 1
    ELSE IF q % 2 = 0 THEN q ELSE q + 1

\* round(a / b) for b > 0 (\div rounds down, so a may be negative)
RoundDiv(a, b) == RoundFrom(a \div b, a % b, b)

\* f"{seconds}", without the padding
TwoDigits_Unpadded(n) == NatStr(n)

\* f"{seconds:02d}"
TwoDigits(n) == IF n < 10 THEN <<"0">> \o NatStr(n) ELSE NatStr(n)

\* f"{minutes}:{seconds:02d}"
PaceText(minutes, seconds) == NatStr(minutes) \o <<":">> \o TwoDigits(seconds)

Abs(n) == IF n < 0 THEN -n ELSE n

\* float(v): the value in thousandths, or ok = FALSE where float() raises
py_float(v) ==
    CASE v.tag = "int" -> [ok |-> TRUE, n |-> 1000 * v.n]
      [] v.tag = "float" -> [ok |-> TRUE, n |-> v.n]
      [] v.tag = "str" -> ParseFloat(v.s)
      [] v.tag \in {"none", "dict", "list"} -> [ok |-> FALSE, n |-> 0]

\* mins_per_mile = 26.8224 / speed; with the speed n in thousandths that is
\* 268224 / (10 * n), and the whole seconds of its fraction are
\* floor(1609344 / n) - 60 * minutes
pace_of(n) == PyStr(PaceText(268224 \div (10 * n), (1609344 \div n) - 60 * (268224 \div (10 * n))))

\* "if not speed_mps or speed_mps <= 0: return None"; speed_mps is a number
\* or None
format_pace_min_mile(speed_mps) ==
    IF ~Truthy(speed_mps) \/ speed_mps.n <= 0 THEN None
    ELSE pace_of(py_float(speed_mps).n)

RECURSIVE GCD(_, _)
GCD(a, b) == IF b = 0 THEN a ELSE GCD(b, a % b)

\* p / f in thousandths, rounded, for f > 0; the fraction is reduced by g
\* first, so that the product stays a TLC integer
RatioThousandths(p, f, g) == RoundDiv(1000 * (p \div g), f \div g)

\* "round(float(power_w) / float(ftp_watts), 3)" inside the try: a failed
\* conversion and a division by zero are caught and give None
ratio_or_none(p, f) ==
    IF ~p.ok \/ ~f.ok \/ f.n = 0 THEN None
    ELSE PyFloat(RatioThousandths(IF f.n < 0 THEN -p.n ELSE p.n, Abs(f.n),
                                  GCD(Abs(p.n), Abs(f.n))))

\* "if not power_w or not ftp_watts: return None": the guard rejects what is
\* falsy (None, 0, 0.0, ""), not what is negative
intensity_factor(power_w, ftp_watts) ==
    IF ~Truthy(power_w) \/ ~Truthy(ftp_watts) THEN None
    ELSE ratio_or_none(py_float(power_w), py_float(ftp_watts))

\* d * p^2 / (3600 * f^2), rounded, for p and f coprime and h = gcd(d, 3600)
TssTenths(d, p, f, h) == RoundDiv((d \div h) * p * p, (3600 \div h) * f * f)

\* TssTenths with p / f reduced by g
TssReduced(d, p, f, g) == TssTenths(d, p \div g, f \div g, GCD(d, 3600))

\* round(duration * power * (power / ftp) / (ftp * 3600) * 100, 1) inside the
\* try: in tenths that is duration (thousandths) * power^2 / (3600 * ftp^2),
\* whose sign is the duration's
tss_or_none(d, p, f) ==
    IF ~d.ok \/ ~p.ok \/ ~f.ok \/ f.n = 0 THEN None
    ELSE PyFloat(100 * TssReduced(d.n, Abs(p.n), Abs(f.n), GCD(Abs(p.n), Abs(f.n))))

\* "if not duration_s or not power_w or not ftp_watts: return None"
tss(duration_s, power_w, ftp_watts) ==
    IF ~Truthy(duration_s) \/ ~Truthy(power_w) \/ ~Truthy(ftp_watts) THEN None
    ELSE tss_or_none(py_float(duration_s), py_float(power_w), py_float(ftp_watts))

\* s[:10] / s[11:] of the start time
DateOf(start_local) == IF Len(start_local) >= 10 THEN SubSeq(start_local, 1, 10) ELSE <<>>
TimeOf(start_local) == IF Len(start_local) > 11 THEN SubSeq(start_local, 12, Len(start_local)) ELSE <<>>

\* the keys of the dict literal "row = {...}" of to_row, as written there
RowLiteralKeys ==
    <<<<"a","c","t","i","v","i","t","y","_","i","d">>, <<"d","a","t","e">>, <<"t","i","m","e">>, <<"s","t","a","r","t","_","t","i","m","e","_","l","o","c","a","l">>, <<"t","i","t","l","e">>, <<"a","c","t","i","v","i","t","y","_","t","y","p","e">>,
      <<"d","i","s","t","a","n","c","e","_","m">>, <<"d","u","r","a","t","i","o","n","_","s">>, <<"c","a","l","o","r","i","e","s">>, <<"a","v","g","_","s","p","e","e","d","_","m","p","s">>, <<"m","a","x","_","s","p","e","e","d","_","m","p","s">>,
      <<"a","v","g","_","p","a","c","e","_","m","i","n","_","m","i","l","e">>, <<"a","v","g","_","h","r">>, <<"m","a","x","_","h","r">>, <<"r","u","n","n","i","n","g","_","c","a","d","e","n","c","e","_","s","p","m">>,
      <<"c","y","c","l","i","n","g","_","c","a","d","e","n","c","e","_","r","p","m">>, <<"a","v","g","_","p","o","w","e","r","_","w">>, <<"m","a","x","_","p","o","w","e","r","_","w">>, <<"e","l","e","v","a","t","i","o","n","_","g","a","i","n","_","m">>,
      <<"a","e","r","o","b","i","c","_","t","e">>, <<"a","n","a","e","r","o","b","i","c","_","t","e">>, <<"b","e","s","t","_","2","0","m","_","w","a","t","t","s">>, <<"f","t","p","_","w","a","t","t","s">>, <<"f","t","p","_","s","o","u","r","c","e">>,
      <<"n","o","r","m","a","l","i","z","e","d","_","p","o","w","e","r","_","w">>, <<"i","n","t","e","n","s","i","t","y","_","f","a","c","t","o","r">>, <<"t","s","s">>>>

\* the dict literal "row = {...}" of to_row, as a function of its keys, from
\* the locals computed before it
row_dict(act, start_local, avg_speed_mps, avg_power, dur_s, best_20m, np_w, ftp_watts, ftp_source) ==
    [k \in Range(RowLiteralKeys) |->
        CASE k = <<"a","c","t","i","v","i","t","y","_","i","d">> -> coerce_activity_id(act)
          [] k = <<"d","a","t","e">> -> PyStr(DateOf(start_local))
          [] k = <<"t","i","m","e">> -> PyStr(TimeOf(start_local))
          [] k = <<"s","t","a","r","t","_","t","i","m","e","_","l","o","c","a","l">> -> PyStr(start_local)
          [] k = <<"t","i","t","l","e">> -> PyStr(py_str(py_or(dict_get(act, <<"a","c","t","i","v","i","t","y","N","a","m","e">>), PyStr(<<>>))))
          [] k = <<"a","c","t","i","v","i","t","y","_","t","y","p","e">> -> PyStr(normalize_activity_type(act))
          [] k = <<"d","i","s","t","a","n","c","e","_","m">> -> safe_float(dict_get(act, <<"d","i","s","t","a","n","c","e">>))
          [] k = <<"d","u","r","a","t","i","o","n","_","s">> -> dur_s
          [] k = <<"c","a","l","o","r","i","e","s">> -> safe_float(dict_get(act, <<"c","a","l","o","r","i","e","s">>))
          [] k = <<"a","v","g","_","s","p","e","e","d","_","m","p","s">> -> avg_speed_mps
          [] k = <<"m","a","x","_","s","p","e","e","d","_","m","p","s">> -> safe_float(dict_get(act, <<"m","a","x","S","p","e","e","d">>))
          [] k = <<"a","v","g","_","p","a","c","e","_","m","i","n","_","m","i","l","e">> ->
                IF Truthy(avg_speed_mps) THEN format_pace_min_mile(avg_speed_mps) ELSE None
          [] k = <<"a","v","g","_","h","r">> -> safe_float(dict_get(act, <<"a","v","e","r","a","g","e","H","R">>))
          [] k = <<"m","a","x","_","h","r">> -> safe_float(dict_get(act, <<"m","a","x","H","R">>))
          [] k = <<"r","u","n","n","i","n","g","_","c","a","d","e","n","c","e","_","s","p","m">> ->
                safe_float(dict_get(act, <<"a","v","e","r","a","g","e","R","u","n","n","i","n","g","C","a","d","e","n","c","e","I","n","S","t","e","p","s","P","e","r","M","i","n","u","t","e">>))
          [] k = <<"c","y","c","l","i","n","g","_","c","a","d","e","n","c","e","_","r","p","m">> -> safe_float(dict_get(act, <<"a","v","e","r","a","g","e","C","a","d","e","n","c","e">>))
          [] k = <<"a","v","g","_","p","o","w","e","r","_","w">> -> avg_power
          [] k = <<"m","a","x","_","p","o","w","e","r","_","w">> -> safe_float(dict_get(act, <<"m","a","x","P","o","w","e","r">>))
          [] k = <<"e","l","e","v","a","t","i","o","n","_","g","a","i","n","_","m">> ->
                safe_float(py_or(dict_get(act, <<"t","o","t","a","l","E","l","e","v","a","t","i","o","n","G","a","i","n">>),
                                 dict_get(act, <<"e","l","e","v","a","t","i","o","n","G","a","i","n">>)))
          [] k = <<"a","e","r","o","b","i","c","_","t","e">> -> safe_float(dict_get(act, <<"a","e","r","o","b","i","c","T","r","a","i","n","i","n","g","E","f","f","e","c","t">>))
          [] k = <<"a","n","a","e","r","o","b","i","c","_","t","e">> -> safe_float(dict_get(act, <<"a","n","a","e","r","o","b","i","c","T","r","a","i","n","i","n","g","E","f","f","e","c","t">>))
          [] k = <<"b","e","s","t","_","2","0","m","_","w","a","t","t","s">> -> best_20m
          [] k = <<"f","t","p","_","w","a","t","t","s">> -> ftp_watts
          [] k = <<"f","t","p","_","s","o","u","r","c","e">> -> PyStr(ftp_source)
          [] k = <<"n","o","r","m","a","l","i","z","e","d","_","p","o","w","e","r","_","w">> -> np_w
          [] k = <<"i","n","t","e","n","s","i","t","y","_","f","a","c","t","o","r">> ->
                IF Truthy(ftp_watts) THEN intensity_factor(py_or(np_w, avg_power), ftp_watts)
                ELSE None
          [] k = <<"t","s","s">> ->
                IF Truthy(ftp_watts) THEN tss(dur_s, py_or(np_w, avg_power), ftp_watts)
                ELSE None]

\* row.get(k)
row_get(row, k) == IF k \in DOMAIN row THEN row[k] ELSE None

\* the computed fields only, in the order of DESIRED_FIELDS
by_desired_fields_Computed(row) ==
    PyDict(SelectSeq([j \in 1..Len(DESIRED_FIELDS) |->
                         Item(DESIRED_FIELDS[j], row_get(row, DESIRED_FIELDS[j]))],
                     LAMBDA item : item[2] # None))

\* "return {k: row.get(k) for k in DESIRED_FIELDS}": a mapping whose items
\* are in the order of DESIRED_FIELDS
by_desired_fields(row) ==
    PyDict([j \in 1..Len(DESIRED_FIELDS) |->
               Item(DESIRED_FIELDS[j], row_get(row, DESIRED_FIELDS[j]))])

to_row(act, detail, ftp_watts, ftp_source) ==
    by_desired_fields(
        row_dict(act,
                 py_str(py_or(dict_get(act, <<"s","t","a","r","t","T","i","m","e","L","o","c","a","l">>), PyStr(<<>>))),
                 safe_float(dict_get(act, <<"a","v","e","r","a","g","e","S","p","e","e","d">>)),
                 safe_float(dict_get(act, <<"a","v","e","r","a","g","e","P","o","w","e","r">>)),
                 safe_float(dict_get(act, <<"d","u","r","a","t","i","o","n">>)),
                 IF Truthy(detail) THEN extract_best_20m_power_w(detail) ELSE None,
                 IF Truthy(detail) THEN extract_normalized_power_w(detail) ELSE None,
                 ftp_watts, ftp_source))

\* the line csv.DictWriter(fieldnames=DESIRED_FIELDS) writes for a row dict
RowLine(row) == [j \in 1..Len(DESIRED_FIELDS) |-> CsvCell(dict_get(row, DESIRED_FIELDS[j]))]

\* characters in code-point order, for comparing the sort keys
CodePointOrder == <<" ","-","0","1","2","3","4","5","6","7","8","9",":">> \o UpperChars \o <<"_">> \o LowerChars

CharRank(c) == CHOOSE i \in 1..Len(CodePointOrder) : CodePointOrder[i] = c

\* a < b for strings
RECURSIVE StrLess(_, _)
StrLess(a, b) ==
    IF b = <<>> THEN FALSE
    ELSE IF a = <<>> THEN TRUE
    ELSE IF a[1] = b[1] THEN StrLess(Tail(a), Tail(b))
    ELSE CharRank(a[1]) < CharRank(b[1])

\* key(r1) <= key(r2) for key = (date or "", time or "") on written lines
SortKeyLeq(l1, l2) ==
    IF l1[2] # l2[2] THEN StrLess(l1[2], l2[2]) ELSE ~StrLess(l2[3], l1[3])

\* x put after the last line of the sorted lines init whose key is not greater
InsertAfter(init, x, at) == SubSeq(init, 1, at) \o <<x>> \o SubSeq(init, at + 1, Len(init))

InsertSorted(init, x, before) ==
    InsertAfter(init, x, IF before = {} THEN 0 ELSE SetMax(before))

InsertLine(init, x) == InsertSorted(init, x, {i \in 1..Len(init) : SortKeyLeq(init[i], x)})

\* list.sort(key=...) (stable): each line in turn is inserted into the sorted
\* lines before it
RECURSIVE SortLines(_)
SortLines(lines) ==
    IF Len(lines) <= 1 THEN lines
    ELSE InsertLine(SortLines(SubSeq(lines, 1, Len(lines) - 1)), lines[Len(lines)])

(***************************************************************************)
(* The activity jobs: main of garmin_activities_daily.py and of            *)
(* garmin_activities_history.py, run one after the other on one CSV path   *)
(***************************************************************************)
\* fetch_activities(api, start, end): result [raised, acts]
RECURSIVE merge_by_id(_, _, _)

\* one mapping of merged, with identifier aid
merge_one(act, aid, rest, seen, out) ==
    IF ~Truthy(aid) \/ aid.s \in seen THEN merge_by_id(rest, seen, out)
    ELSE merge_by_id(rest, seen \cup {aid.s}, Append(out, act))

\* the "for act in merged" loop: first record of each identifier, records
\* without identifier dropped; a record that is not a mapping raises
merge_by_id(merged, seen, out) ==
    IF merged = <<>> THEN [raised |-> FALSE, acts |-> out]
    ELSE IF Head(merged).tag # "dict" THEN [raised |-> TRUE, acts |-> <<>>]
    ELSE merge_one(Head(merged), coerce_activity_id(Head(merged)), Tail(merged), seen, out)

FetchTypes == <<<<"r","u","n","n","i","n","g">>, <<"c","y","c","l","i","n","g">>, <<"i","n","d","o","o","r","_","c","y","c","l","i","n","g">>, <<"v","i","r","t","u","a","l","_","r","i","d","e">>>>

\* "if a: merged.extend(a)" for the response a of one per-type call
extend_with(a) == IF a # Raise /\ Truthy(a) THEN a.items ELSE <<>>

RECURSIVE merged_types(_, _)
merged_types(api, i) ==
    IF i > Len(FetchTypes) THEN <<>>
    ELSE extend_with(api.acts_by_type[FetchTypes[i]]) \o merged_types(api, i + 1)

fetch_activities(api) ==
    IF api.acts_empty \notin {Raise, None}
    THEN [raised |-> FALSE, acts |-> api.acts_empty.items]
    ELSE IF api.acts_none \notin {Raise, None}
    THEN [raised |-> FALSE, acts |-> api.acts_none.items]
    ELSE merge_by_id(merged_types(api, 1), {}, <<>>)

\* a detail payload fetched for every activity, whatever its type
detail_for_Always(api, act_id, activity_type) ==
    [detail |-> fetch_activity_detail(api, act_id).value, fetched |-> TRUE]

\* "detail = {}; if needs_detail: detail = fetch_activity_detail(api, act_id)":
\* the payload handed to to_row, and whether the upstream was asked for it
detail_for(api, act_id, activity_type) ==
    IF normalize_key(activity_type) \in CYCLING_TYPE_KEYS
    THEN [detail |-> fetch_activity_detail(api, act_id).value, fetched |-> TRUE]
    ELSE [detail |-> PyDict(<<>>), fetched |-> FALSE]

\* "row = to_row(act, detail, ftp_watts, ftp_source); new_rows.append(row);
\* existing_ids.add(act_id)", with the identifiers whose detail was fetched
row_added(st, act, act_id, d, ftp) ==
    [new_rows |-> Append(st.new_rows, RowLine(to_row(act, d.detail, ftp.ftp_watts, ftp.source))),
     existing_ids |-> st.existing_ids \cup {act_id},
     skipped_dup |-> st.skipped_dup,
     fetched |-> IF d.fetched THEN st.fetched \cup {act_id} ELSE st.fetched,
     raised |-> FALSE]

RECURSIVE collect_new_rows(_, _, _, _, _)

\* the loop body without the "if not flt.allows(activity_type): continue"
collect_one_Unfiltered(api, flt, ftp, act, rest, st, act_id, activity_type) ==
    IF ~Truthy(act_id) THEN collect_new_rows(api, flt, ftp, rest, st)
    ELSE IF act_id.s \in st.existing_ids
    THEN collect_new_rows(api, flt, ftp, rest, [st EXCEPT !.skipped_dup = st.skipped_dup + 1])
    ELSE collect_new_rows(api, flt, ftp, rest,
             row_added(st, act, act_id.s, detail_for(api, act_id.s, activity_type), ftp))

\* the loop body for one mapping act with identifier act_id and type activity_type
collect_one(api, flt, ftp, act, rest, st, act_id, activity_type) ==
    IF ~Truthy(act_id) THEN collect_new_rows(api, flt, ftp, rest, st)
    ELSE IF act_id.s \in st.existing_ids
    THEN collect_new_rows(api, flt, ftp, rest, [st EXCEPT !.skipped_dup = st.skipped_dup + 1])
    ELSE IF ~allows(flt, PyStr(activity_type))
    THEN collect_new_rows(api, flt, ftp, rest, st)
    ELSE collect_new_rows(api, flt, ftp, rest,
             row_added(st, act, act_id.s, detail_for(api, act_id.s, activity_type), ftp))

\* the "for act in activities" loop of main;
\* st = [new_rows, existing_ids, skipped_dup, fetched, raised]
collect_new_rows(api, flt, ftp, activities, st) ==
    IF activities = <<>> THEN st
    ELSE IF Head(activities).tag # "dict"
    THEN [st EXCEPT !.raised = TRUE]      \* act.get: AttributeError, not caught
    ELSE collect_one(api, flt, ftp, Head(activities), Tail(activities), st,
                     coerce_activity_id(Head(activities)),
                     normalize_activity_type(Head(activities)))

\* CHUNK_DAYS (default "30")
CHUNK_DAYS == 30

RunIdle ==
    [pc |-> "idle", kind |-> "daily", flt |-> [include_types |-> {}, exclude_types |-> {}],
     existing_ids |-> {}, ftp |-> FtpMissing, ftp_calls |-> 0, current |-> 0, end |-> 0]

NoMigration == [status |-> "none", raised |-> FALSE, before |-> AbsentFile]
NoAppend ==
    [count |-> 0, run |-> 0, pre |-> AbsentFile, rows |-> <<>>, skipped_dup |-> 0, fetched |-> {}]

(***************************************************************************)
(* Runs of the activity jobs against arbitrary upstreams                   *)
(***************************************************************************)
\* upstream activity records with the fields to_row reads
RunAct(id, name, start, type, power) ==
    PyDict(<<Item(<<"a","c","t","i","v","i","t","y","I","d">>, PyInt(id)), Item(<<"a","c","t","i","v","i","t","y","N","a","m","e">>, PyStr(name)),
             Item(<<"s","t","a","r","t","T","i","m","e","L","o","c","a","l">>, PyStr(start)),
             Item(<<"a","c","t","i","v","i","t","y","T","y","p","e">>, TypeKeyDict(type)),
             Item(<<"d","u","r","a","t","i","o","n">>, PyFloat(3600000)), Item(<<"a","v","e","r","a","g","e","S","p","e","e","d">>, PyFloat(2682)),
             Item(<<"a","v","e","r","a","g","e","P","o","w","e","r">>, power)>>)

ActMorningRun == RunAct(1, <<"R","u","n">>, <<"2","0","2","4","-","0","1","-","0","2"," ","0","7",":","3","0",":","0","0">>, <<"r","u","n","n","i","n","g">>, PyInt(150))
ActZwift == RunAct(2, <<"Z","w","i","f","t">>, <<"2","0","2","4","-","0","1","-","0","1"," ","1","8",":","0","0",":","0","0">>, <<"v","i","r","t","u","a","l","_","r","i","d","e">>, PyInt(200))

\* a type no filter of RunFilters includes, and a record without a type
ActHike == RunAct(3, <<"H","i","k","e">>, <<"2","0","2","4","-","0","1","-","0","3"," ","0","9",":","0","0",":","0","0">>, <<"h","i","k","i","n","g">>, None)
ActUntyped ==
    PyDict(<<Item(<<"a","c","t","i","v","i","t","y","I","d">>, PyInt(4)), Item(<<"s","t","a","r","t","T","i","m","e","L","o","c","a","l">>, PyStr(<<"2","0","2","4","-","0","1","-","0","4"," ","1","2",":","0","0",":","0","0">>))>>)

\* the lists one upstream call may return: empty, records with and without
\* identifier, a repeated record, two records out of date order, an element
\* that is not a mapping, and records of types the filter does not include
RunActLists ==
    {<<>>, <<ActMorningRun>>, <<ActZwift>>, <<ActSpinningNoId>>, <<ActNotAMapping>>,
     <<ActMorningRun, ActMorningRun>>, <<ActMorningRun, ActZwift>>,
     <<ActZwift, ActNotAMapping>>, <<ActHike, ActUntyped, ActZwift>>}

RunDetail == PyDict(<<Item(<<"n","o","r","m","a","l","i","z","e","d","P","o","w","e","r">>, PyInt(210)), Item(<<"m","a","x","2","0","M","i","n","P","o","w","e","r">>, PyInt(240))>>)

\* an upstream for one fetch: the two broad list calls, the per-type calls
\* and the detail calls
RunApi(l1, l2, byType, d) ==
    [acts_empty |-> l1, acts_none |-> l2, acts_by_type |-> byType,
     has_get_activity_details |-> TRUE, detail_method |-> << >>, detail_endpoint |-> << >>,
     detail_rest |-> d]

NoTypedActs == [t \in Range(FetchTypes) |-> Raise]

TypedActs ==
    [t \in Range(FetchTypes) |->
        CASE t = <<"r","u","n","n","i","n","g">> -> PyList(<<ActMorningRun, ActMorningRun>>)
          [] t = <<"c","y","c","l","i","n","g">> -> Raise
          [] t = <<"i","n","d","o","o","r","_","c","y","c","l","i","n","g">> -> None
          [] t = <<"v","i","r","t","u","a","l","_","r","i","d","e">> -> PyList(<<ActZwift, ActSpinningNoId, ActMorningRun>>)]

TypedActsNotAMapping ==
    [t \in Range(FetchTypes) |-> IF t = <<"r","u","n","n","i","n","g">> THEN PyList(<<ActNotAMapping>>) ELSE None]

RunApis ==
    {RunApi(PyList(l), Raise, NoTypedActs, RunDetail) : l \in RunActLists}
    \cup {RunApi(PyList(<<ActZwift>>), Raise, NoTypedActs, Raise),
          RunApi(Raise, PyList(<<ActZwift, ActZwift>>), NoTypedActs, RunDetail),
          RunApi(None, Raise, TypedActs, RunDetail),
          RunApi(Raise, None, TypedActsNotAMapping, RunDetail),
          RunApi(Raise, Raise, NoTypedActs, Raise)}

\* the upstreams tried where file-system calls fail: nothing new, one and
\* two new rows, a failing list call
FailRunApis ==
    {RunApi(PyList(l), Raise, NoTypedActs, RunDetail) :
        l \in {<<>>, <<ActMorningRun>>, <<ActMorningRun, ActZwift>>}}
    \cup {RunApi(Raise, Raise, NoTypedActs, Raise)}

\* upstreams of the FTP resolution of a run: a settings value, nothing, a
\* best 20 minute power, and a list that makes resolve_ftp raise
RunFtpApis ==
    {FtpApi(TRUE, PyDict(<<Item(<<"f","u","n","c","t","i","o","n","a","l","T","h","r","e","s","h","o","l","d","P","o","w","e","r">>, PyInt(250))>>), None,
            Raise, Raise, FALSE, << >>, << >>),
     FtpApi(FALSE, None, Raise, Raise, Raise, FALSE, << >>, << >>),
     FtpApi(FALSE, None, None, PyList(<<ActNotAMapping>>), Raise, FALSE, << >>, << >>)}

RunFilters ==
    {[include_types |-> {<<"r","u","n","n","i","n","g">>, <<"v","i","r","t","u","a","l","_","r","i","d","e">>}, exclude_types |-> {}],
     [include_types |-> {<<"r","u","n","n","i","n","g">>, <<"v","i","r","t","u","a","l","_","r","i","d","e">>}, exclude_types |-> {<<"r","u","n","n","i","n","g">>}]}

\* START_DATE to today, in days: one chunk, or two
HistorySpans == {0, CHUNK_DAYS + 1}

\* a line as an earlier run wrote it
StoredLine(act) == RowLine(to_row(act, PyDict(<<>>), None, <<"m","i","s","s","i","n","g">>))

\* the 21 fields of the schema before the FTP columns were added
OldFields == SubSeq(DESIRED_FIELDS, 1, 21)

\* a header in another order, with a column the schema does not have
OtherFields == <<<<"d","a","t","e">>, <<"g","e","a","r">>, <<"a","c","t","i","v","i","t","y","_","i","d">>>>

\* the CSV a first run may find
InitialFiles ==
    {AbsentFile,
     File(<<>>),
     File(<<DESIRED_FIELDS, StoredLine(ActMorningRun)>>),
     File(<<OldFields>>),
     File(<<OldFields, SubSeq(StoredLine(ActZwift), 1, 21), SubSeq(StoredLine(ActMorningRun), 1, 21)>>),
     File(<<OtherFields, <<<<"2","0","2","4","-","0","1","-","0","1">>, <<"b","i","k","e">>, <<"2">>>>, <<<<"2","0","2","4","-","0","1","-","0","2">>, <<>>, <<"1">>>> >>)}

\* bound: runs of the activity jobs in one behaviour
MaxRuns == 2

RunInit ==
    /\ csv \in InitialFiles
    /\ run = RunIdle
    /\ mig = NoMigration
    /\ last_append = NoAppend
    /\ runs = 0

\* the process ends (main returned, raised, or was killed): its locals are gone
Ended == RunIdle

\* bound: runs in one behaviour when file-system calls may fail
MaxFailRuns == 1

\* the run's state after the migration returned m
Migrated(kind, span, m) ==
    /\ csv' = m.file
    /\ mig' = [status |-> m.status, raised |-> m.raised, before |-> csv]
    /\ run' = [RunIdle EXCEPT !.pc = IF m.raised THEN "idle" ELSE "load",
                              !.kind = kind, !.end = span]

\* main up to the migration: "if os.path.isfile(CSV_FILE): migrate_csv_to_schema(...)"
Start(kind, span, fail, maxRuns) ==
    /\ run.pc = "idle"
    /\ runs < maxRuns
    /\ runs' = runs + 1
    /\ Migrated(kind, span,
                IF csv.exists THEN migrate_csv_to_schema(csv, fail)
                ELSE [file |-> csv, status |-> "skipped", raised |-> FALSE])
    /\ UNCHANGED <<last_append, notRunVars>>

\* load_activity_filter() and load_existing_activity_ids(CSV_FILE); a missing
\* filter file raises FileNotFoundError, which main does not catch
Load(flt, readFails) ==
    /\ run.pc = "load"
    /\ run' = IF flt = Raise THEN Ended
              ELSE [run EXCEPT !.pc = "login", !.flt = flt,
                               !.existing_ids = load_existing_activity_ids(csv, readFails)]
    /\ UNCHANGED <<csv, mig, last_append, runs, notRunVars>>

\* garth.resume(TOKEN_DIR): on an exception main prints and returns
Login(ok) ==
    /\ run.pc = "login"
    /\ run' = IF ok THEN [run EXCEPT !.pc = "resolve"] ELSE Ended
    /\ UNCHANGED <<csv, mig, last_append, runs, notRunVars>>

\* the run's state after resolve_ftp returned r
Resolved(r) ==
    IF r.raised THEN Ended
    ELSE [run EXCEPT !.pc = IF run.kind = "daily" THEN "fetch" ELSE "chunk", !.ftp = r.res,
                     !.ftp_calls = @ + 1]

\* "ftp_watts, ftp_source, ftp_best_20m_used = resolve_ftp(api)"
ResolveFtp(api) ==
    /\ run.pc = "resolve"
    /\ run' = Resolved(resolve_ftp(api))
    /\ UNCHANGED <<csv, mig, last_append, runs, notRunVars>>

NothingNew(raised) ==
    [raised |-> raised, lines |-> <<>>, existing_ids |-> run.existing_ids, skipped_dup |-> 0,
     fetched |-> {}]

\* "new_rows.sort(...)" on the loop's result st
SortedRows(st) ==
    IF st.raised THEN NothingNew(TRUE)
    ELSE [raised |-> FALSE, lines |-> SortLines(st.new_rows),
          existing_ids |-> st.existing_ids, skipped_dup |-> st.skipped_dup,
          fetched |-> st.fetched]

\* the rows of the fetched list f, built without the FTP the run resolved
RowsFrom_Unresolved(api, f) ==
    IF f.raised THEN NothingNew(TRUE)
    ELSE IF f.acts = <<>> THEN NothingNew(FALSE)
    ELSE SortedRows(collect_new_rows(api, run.flt, FtpMissing, f.acts,
                                     [new_rows |-> <<>>, existing_ids |-> run.existing_ids,
                                      skipped_dup |-> 0, fetched |-> {}, raised |-> FALSE]))

\* the rows the fetched list f adds: [raised, lines, existing_ids, skipped_dup, fetched]
RowsFrom(api, f) ==
    IF f.raised THEN NothingNew(TRUE)
    ELSE IF f.acts = <<>> THEN NothingNew(FALSE)
    ELSE SortedRows(collect_new_rows(api, run.flt, run.ftp, f.acts,
                                     [new_rows |-> <<>>, existing_ids |-> run.existing_ids,
                                      skipped_dup |-> 0, fetched |-> {}, raised |-> FALSE]))

\* fetch_activities, the loop over the list and the sort
NewRows(api) == RowsFrom(api, fetch_activities(api))

\* the record of an append: which run made it, the file it found, the lines
\* it added and the duplicates skipped while collecting them
Appended(n) ==
    [count |-> last_append.count + 1, run |-> runs, pre |-> csv, rows |-> n.lines,
     skipped_dup |-> n.skipped_dup, fetched |-> n.fetched]

\* "if not new_rows: return", else the append
WriteRows(n) ==
    IF n.raised \/ n.lines = <<>> THEN UNCHANGED <<csv, last_append>>
    ELSE /\ csv' = append_rows(csv, n.lines)
         /\ last_append' = Appended(n)

\* the rest of the daily main: fetch, build the new rows, sort, append
DailyBody(api) ==
    /\ run.pc = "fetch"
    /\ run' = Ended
    /\ WriteRows(NewRows(api))
    /\ UNCHANGED <<mig, runs, notRunVars>>

\* "current = chunk_end + timedelta(days=1)", with the ids of the rows written
NextChunk(n, chunk_end) ==
    IF n.raised THEN Ended
    ELSE [run EXCEPT !.current = chunk_end + 1, !.existing_ids = n.existing_ids]

\* one iteration of "while current <= end" after its rows n were collected
ChunkDone(n) ==
    /\ run' = NextChunk(n, IF run.current + CHUNK_DAYS > run.end THEN run.end
                           ELSE run.current + CHUNK_DAYS)
    /\ WriteRows(n)

\* one iteration of "while current <= end" of the history main
Chunk(api) ==
    /\ run.pc = "chunk"
    /\ run.current <= run.end
    /\ ChunkDone(NewRows(api))
    /\ UNCHANGED <<mig, runs, notRunVars>>

\* the loop of the history main is over: the totals are printed
HistoryDone ==
    /\ run.pc = "chunk"
    /\ run.current > run.end
    /\ run' = Ended
    /\ UNCHANGED <<csv, mig, last_append, runs, notRunVars>>

\* the process is killed between two steps
Abort ==
    /\ run.pc # "idle"
    /\ run' = Ended
    /\ UNCHANGED <<csv, mig, last_append, runs, notRunVars>>

RunKinds == {"daily", "history"}
MigrationFailures == {"header", "read", "write", "replace"}

\* runs in which every file-system call succeeds
RunNext ==
    \/ \E kind \in RunKinds, span \in HistorySpans : Start(kind, span, "none", MaxRuns)
    \/ \E flt \in RunFilters \cup {Raise} : Load(flt, FALSE)
    \/ \E ok \in BOOLEAN : Login(ok)
    \/ \E api \in RunFtpApis : ResolveFtp(api)
    \/ \E api \in RunApis : DailyBody(api)
    \/ \E api \in RunApis : Chunk(api)
    \/ HistoryDone
    \/ Abort

\* runs in which a file-system call of the migration or the id load may fail
RunFailNext ==
    \/ \E kind \in RunKinds, span \in HistorySpans,
          fail \in MigrationFailures \cup {"none"} :
           Start(kind, span, fail, MaxFailRuns)
    \/ \E flt \in RunFilters \cup {Raise}, readFails \in BOOLEAN : Load(flt, readFails)
    \/ \E ok \in BOOLEAN : Login(ok)
    \/ \E api \in RunFtpApis : ResolveFtp(api)
    \/ \E api \in FailRunApis : DailyBody(api)
    \/ \E api \in FailRunApis : Chunk(api)
    \/ HistoryDone
    \/ Abort

(***************************************************************************)
(* garmin_stats_daily.py: the daily wellness row and its save              *)
(*                                                                         *)
(* The wellness CSV is a file like the activity CSV.  An upstream is a     *)
(* record of the responses of the calls main makes, Raise for a call that  *)
(* raises.                                                                 *)
(***************************************************************************)
HEADERS ==
    <<<<"D","a","t","e">>,
      <<"W","e","i","g","h","t"," ","(","l","b","s",")">>, <<"M","u","s","c","l","e"," ","M","a","s","s"," ","(","l","b","s",")">>, <<"B","o","d","y"," ","F","a","t"," ","%">>, <<"W","a","t","e","r"," ","%">>,
      <<"S","l","e","e","p"," ","T","o","t","a","l"," ","(","h","r",")">>, <<"S","l","e","e","p"," ","D","e","e","p"," ","(","h","r",")">>, <<"S","l","e","e","p"," ","R","E","M"," ","(","h","r",")">>, <<"S","l","e","e","p"," ","S","c","o","r","e">>,
      <<"R","H","R">>, <<"M","i","n"," ","H","R">>, <<"M","a","x"," ","H","R">>, <<"A","v","g"," ","S","t","r","e","s","s">>, <<"R","e","s","p","i","r","a","t","i","o","n">>, <<"S","p","O","2">>,
      <<"V","O","2"," ","M","a","x">>, <<"T","r","a","i","n","i","n","g"," ","S","t","a","t","u","s">>, <<"H","R","V"," ","S","t","a","t","u","s">>, <<"H","R","V"," ","A","v","g">>,
      <<"S","t","e","p","s">>, <<"S","t","e","p"," ","G","o","a","l">>, <<"C","a","l","s"," ","T","o","t","a","l">>, <<"C","a","l","s"," ","A","c","t","i","v","e">>,
      <<"A","c","t","i","v","i","t","i","e","s">>>>

\* key in d, for a mapping d
has_key(d, key) == \E i \in 1..Len(d.items) : d.items[i][1] = key

\* "for key in keys: data = data[key]"; a missing key or a value that is not
\* a mapping gives None
RECURSIVE get_safe(_, _)
get_safe(data, keys) ==
    IF keys = <<>> THEN data
    ELSE IF data.tag # "dict" THEN None
    ELSE IF ~has_key(data, Head(keys)) THEN None
    ELSE get_safe(dict_get(data, Head(keys)), Tail(keys))

\* block 1: one field of get_user_summary; None for all when the call raises
core_biometric(user_stats, key) ==
    IF user_stats = Raise THEN None ELSE get_safe(user_stats, <<key>>)

\* "if v: v = round(v / 3600, 2)": a falsy value stays, a value that is not
\* a number raises TypeError.  Exact for quotients that are not a tie.
sleep_hours(v) ==
    IF ~Truthy(v) THEN v
    ELSE IF v.tag = "int" THEN PyFloat(10 * RoundDiv(v.n, 36))
    ELSE IF v.tag = "float" THEN PyFloat(10 * RoundDiv(v.n, 36000))
    ELSE Raise

FourNone == <<None, None, None, None>>

\* the four sleep values; the block's except resets all of them
sleep_values(total, deep, rem, score) ==
    IF Raise \in {total, deep, rem} THEN FourNone ELSE <<total, deep, rem, score>>

\* block 2
sleep_block(sleep_data) ==
    IF sleep_data = Raise THEN FourNone
    ELSE sleep_values(
             sleep_hours(get_safe(sleep_data, <<<<"d","a","i","l","y","S","l","e","e","p","D","T","O">>, <<"s","l","e","e","p","T","i","m","e","S","e","c","o","n","d","s">>>>)),
             sleep_hours(get_safe(sleep_data, <<<<"d","a","i","l","y","S","l","e","e","p","D","T","O">>, <<"d","e","e","p","S","l","e","e","p","S","e","c","o","n","d","s">>>>)),
             sleep_hours(get_safe(sleep_data, <<<<"d","a","i","l","y","S","l","e","e","p","D","T","O">>, <<"r","e","m","S","l","e","e","p","S","e","c","o","n","d","s">>>>)),
             get_safe(sleep_data, <<<<"d","a","i","l","y","S","l","e","e","p","D","T","O">>, <<"s","l","e","e","p","S","c","o","r","e","s">>, <<"o","v","e","r","a","l","l">>, <<"v","a","l","u","e">>>>))

\* block 3
training_status_block(api) ==
    IF ~api.has_get_training_status \/ api.training_status = Raise THEN None
    ELSE get_safe(api.training_status, <<<<"m","o","s","t","R","e","c","e","n","t","T","e","r","m","i","n","a","t","e","d","T","r","a","i","n","i","n","g","S","t","a","t","u","s">>, <<"s","t","a","t","u","s">>>>)

\* "if g: x = round(g / 453.592, 1)": x stays None for a falsy g, a value that
\* is not a number raises TypeError.  g / 453.592 in tenths is g * 1250 / 56699.
pounds(g) ==
    IF ~Truthy(g) THEN None
    ELSE IF g.tag = "int" THEN PyFloat(100 * RoundDiv(1250 * g.n, 56699))
    ELSE IF g.tag = "float" THEN PyFloat(100 * RoundDiv(5 * g.n, 226796))
    ELSE Raise

\* the except of block 4 keeps what was assigned before the exception
body_values(weight, muscle_mass, fat_pct, water_pct) ==
    IF weight = Raise THEN FourNone
    ELSE IF muscle_mass = Raise THEN <<weight, None, None, None>>
    ELSE <<weight, muscle_mass, fat_pct, water_pct>>

\* avg = body_comp["totalAverage"]; avg.get raises on a value that is not a mapping
body_from_average(avg) ==
    IF avg.tag # "dict" THEN FourNone
    ELSE body_values(pounds(dict_get(avg, <<"w","e","i","g","h","t">>)), pounds(dict_get(avg, <<"m","u","s","c","l","e","M","a","s","s">>)),
                     dict_get(avg, <<"b","o","d","y","F","a","t">>), dict_get(avg, <<"b","o","d","y","W","a","t","e","r">>))

\* block 4
body_block(body_comp) ==
    IF body_comp = Raise THEN FourNone
    ELSE IF body_comp.tag # "dict" THEN FourNone
    ELSE IF ~has_key(body_comp, <<"t","o","t","a","l","A","v","e","r","a","g","e">>) THEN FourNone
    ELSE body_from_average(dict_get(body_comp, <<"t","o","t","a","l","A","v","e","r","a","g","e">>))

hrv_values(h) ==
    IF h = Raise THEN <<None, None>>
    ELSE <<get_safe(h, <<<<"h","r","v","S","u","m","m","a","r","y">>, <<"s","t","a","t","u","s">>>>),
           get_safe(h, <<<<"h","r","v","S","u","m","m","a","r","y">>, <<"w","e","e","k","l","y","A","v","e","r","a","g","e">>>>)>>

\* block 5: the client method if it exists, else the endpoint
hrv_block(api) == hrv_values(IF api.has_get_hrv_data THEN api.hrv_data ELSE api.hrv_endpoint)

\* activity_type_key: the sub-object's typeKey or typeName as it is, else the
\* string of the flat fields
activity_type_key(act) ==
    IF dict_get(act, <<"a","c","t","i","v","i","t","y","T","y","p","e">>).tag = "dict"
    THEN nested_activity_type(dict_get(act, <<"a","c","t","i","v","i","t","y","T","y","p","e">>))
    ELSE PyStr(py_str(flat_activity_type(act)))

\* f"{act.get('activityName', 'Activity')} ({str(tkey).lower().replace(' ', '_')})"
activity_label(act, tkey) ==
    (IF has_key(act, <<"a","c","t","i","v","i","t","y","N","a","m","e">>) THEN py_str(dict_get(act, <<"a","c","t","i","v","i","t","y","N","a","m","e">>))
     ELSE <<"A","c","t","i","v","i","t","y">>)
    \o <<" ","(">> \o str_replace(str_lower(py_str(tkey)), " ", "_") \o <<")">>

RECURSIVE activity_names(_, _, _)

\* one mapping of the day's list: allows raises on a type that is not a string
activity_name(flt, act, rest, names, tkey) ==
    IF Truthy(tkey) /\ tkey.tag # "str" THEN [raised |-> TRUE, names |-> <<>>]
    ELSE IF allows(flt, tkey)
    THEN activity_names(flt, rest, Append(names, activity_label(act, tkey)))
    ELSE activity_names(flt, rest, names)

\* the "for act in acts" loop of build_activity_str: [raised, names]
activity_names(flt, acts, names) ==
    IF acts = <<>> THEN [raised |-> FALSE, names |-> names]
    ELSE IF Head(acts).tag # "dict" THEN [raised |-> TRUE, names |-> <<>>]
    ELSE activity_name(flt, Head(acts), Tail(acts), names,
                       activity_type_key(Head(acts)))

\* "; ".join(names)
RECURSIVE join_names(_)
join_names(names) ==
    IF names = <<>> THEN <<>>
    ELSE IF Len(names) = 1 THEN names[1]
    ELSE names[1] \o <<";"," ">> \o join_names(Tail(names))

joined_or_empty(r) == IF r.raised THEN <<>> ELSE join_names(r.names)

\* the text for the list acts; whatever raises leaves out = ""
activity_str_of(acts, flt) ==
    IF acts = Raise THEN <<>>
    ELSE IF ~Truthy(acts) THEN <<>>
    ELSE IF acts.tag # "list" THEN <<>>
    ELSE joined_or_empty(activity_names(flt, acts.items, <<>>))

build_activity_str(api, flt) ==
    activity_str_of(IF api.acts_empty # Raise THEN api.acts_empty ELSE api.acts_none, flt)

\* the list new_row of main
new_row(api, today, flt) ==
    <<PyStr(today)>>
    \o body_block(api.body_composition)
    \o sleep_block(api.sleep_data)
    \o <<core_biometric(api.user_summary, <<"r","e","s","t","i","n","g","H","e","a","r","t","R","a","t","e">>),
         core_biometric(api.user_summary, <<"m","i","n","H","e","a","r","t","R","a","t","e">>),
         core_biometric(api.user_summary, <<"m","a","x","H","e","a","r","t","R","a","t","e">>),
         core_biometric(api.user_summary, <<"a","v","e","r","a","g","e","S","t","r","e","s","s","L","e","v","e","l">>),
         core_biometric(api.user_summary, <<"a","v","e","r","a","g","e","R","e","s","p","i","r","a","t","i","o","n","V","a","l","u","e">>),
         core_biometric(api.user_summary, <<"a","v","e","r","a","g","e","S","p","O","2">>),
         core_biometric(api.user_summary, <<"v","o","2","M","a","x">>),
         training_status_block(api)>>
    \o hrv_block(api)
    \o <<core_biometric(api.user_summary, <<"t","o","t","a","l","S","t","e","p","s">>),
         core_biometric(api.user_summary, <<"d","a","i","l","y","S","t","e","p","G","o","a","l">>),
         core_biometric(api.user_summary, <<"t","o","t","a","l","K","i","l","o","c","a","l","o","r","i","e","s">>),
         core_biometric(api.user_summary, <<"a","c","t","i","v","e","K","i","l","o","c","a","l","o","r","i","e","s">>),
         PyStr(build_activity_str(api, flt))>>

\* the line csv.writer writes for a list of values
WrittenLine(row) == [i \in 1..Len(row) |-> CsvCell(row[i])]

\* bug: today's rows are not filtered out of the rows read
kept_rows_KeepToday(f, today, readFails) ==
    IF ~f.exists \/ readFails \/ f.rows = <<>> THEN <<>>
    ELSE SelectSeq(Tail(f.rows), LAMBDA row : row # <<>>)

\* "rows = [row for row in all_data[1:] if row and row[0] != today]"; rows
\* stays [] for no file, an empty file or a failed read
kept_rows(f, today, readFails) ==
    IF ~f.exists \/ readFails \/ f.rows = <<>> THEN <<>>
    ELSE SelectSeq(Tail(f.rows), LAMBDA row : row # <<>> /\ row[1] # today)

\* x put after the last row of the sorted rows init whose first cell is not greater
InsertByDate(init, x) ==
    InsertSorted(init, x, {i \in 1..Len(init) : ~StrLess(x[1], init[i][1])})

\* rows.sort(key=lambda x: x[0]) (stable)
RECURSIVE SortByDate(_)
SortByDate(rows) ==
    IF Len(rows) <= 1 THEN rows
    ELSE InsertByDate(SortByDate(SubSeq(rows, 1, Len(rows) - 1)), rows[Len(rows)])

\* the smart save: the rows kept, the new line, the sort and the rewrite
smart_save(f, today, line, readFails) ==
    File(<<HEADERS>> \o SortByDate(Append(kept_rows(f, today, readFails), line)))

(***************************************************************************)
(* Runs of the daily wellness job                                          *)
(***************************************************************************)
\* the dates date.today() takes, in order
WellnessDates == <<<<"2","0","2","4","-","0","1","-","0","1">>, <<"2","0","2","4","-","0","1","-","0","2">>>>

WellnessAct(name, type) ==
    PyDict(<<Item(<<"a","c","t","i","v","i","t","y","N","a","m","e">>, PyStr(name)), Item(<<"a","c","t","i","v","i","t","y","T","y","p","e">>, TypeKeyDict(type))>>)

\* an upstream that answers every call
WellnessApiFull ==
    [user_summary |->
        PyDict(<<Item(<<"r","e","s","t","i","n","g","H","e","a","r","t","R","a","t","e">>, PyInt(50)), Item(<<"m","i","n","H","e","a","r","t","R","a","t","e">>, PyInt(44)),
                 Item(<<"m","a","x","H","e","a","r","t","R","a","t","e">>, PyInt(150)), Item(<<"a","v","e","r","a","g","e","S","t","r","e","s","s","L","e","v","e","l">>, PyInt(30)),
                 Item(<<"t","o","t","a","l","S","t","e","p","s">>, PyInt(9000)), Item(<<"v","o","2","M","a","x">>, PyFloat(52000)),
                 Item(<<"a","v","e","r","a","g","e","S","p","O","2">>, PyFloat(96500)),
                 Item(<<"a","v","e","r","a","g","e","R","e","s","p","i","r","a","t","i","o","n","V","a","l","u","e">>, PyFloat(14000)),
                 Item(<<"t","o","t","a","l","K","i","l","o","c","a","l","o","r","i","e","s">>, PyInt(2500)),
                 Item(<<"a","c","t","i","v","e","K","i","l","o","c","a","l","o","r","i","e","s">>, PyInt(600)),
                 Item(<<"d","a","i","l","y","S","t","e","p","G","o","a","l">>, PyInt(8000))>>),
     sleep_data |->
        PyDict(<<Item(<<"d","a","i","l","y","S","l","e","e","p","D","T","O">>,
                      PyDict(<<Item(<<"s","l","e","e","p","T","i","m","e","S","e","c","o","n","d","s">>, PyInt(27000)),
                               Item(<<"d","e","e","p","S","l","e","e","p","S","e","c","o","n","d","s">>, PyInt(5400)),
                               Item(<<"r","e","m","S","l","e","e","p","S","e","c","o","n","d","s">>, PyInt(0)),
                               Item(<<"s","l","e","e","p","S","c","o","r","e","s">>,
                                    PyDict(<<Item(<<"o","v","e","r","a","l","l">>,
                                                  PyDict(<<Item(<<"v","a","l","u","e">>, PyInt(80))>>))>>))>>))>>),
     has_get_training_status |-> TRUE,
     training_status |->
        PyDict(<<Item(<<"m","o","s","t","R","e","c","e","n","t","T","e","r","m","i","n","a","t","e","d","T","r","a","i","n","i","n","g","S","t","a","t","u","s">>,
                      PyDict(<<Item(<<"s","t","a","t","u","s">>, PyStr(<<"P","R","O","D","U","C","T","I","V","E">>))>>))>>),
     body_composition |->
        PyDict(<<Item(<<"t","o","t","a","l","A","v","e","r","a","g","e">>,
                      PyDict(<<Item(<<"w","e","i","g","h","t">>, PyInt(80000)), Item(<<"m","u","s","c","l","e","M","a","s","s">>, PyInt(35000)),
                               Item(<<"b","o","d","y","F","a","t">>, PyFloat(18500)),
                               Item(<<"b","o","d","y","W","a","t","e","r">>, PyFloat(55000))>>))>>),
     has_get_hrv_data |-> TRUE,
     hrv_data |->
        PyDict(<<Item(<<"h","r","v","S","u","m","m","a","r","y">>,
                      PyDict(<<Item(<<"s","t","a","t","u","s">>, PyStr(<<"B","A","L","A","N","C","E","D">>)),
                               Item(<<"w","e","e","k","l","y","A","v","e","r","a","g","e">>, PyInt(60))>>))>>),
     hrv_endpoint |-> Raise,
     acts_empty |-> PyList(<<WellnessAct(<<"M","o","r","n","i","n","g"," ","R","u","n">>, <<"r","u","n","n","i","n","g">>),
                             WellnessAct(<<"Z","w","i","f","t">>, <<"V","i","r","t","u","a","l"," ","R","i","d","e">>)>>),
     acts_none |-> Raise]

\* later the same day: other values, the older client without the optional
\* methods, a list answered on the second call only
WellnessApiLater ==
    [WellnessApiFull EXCEPT
        !.user_summary = PyDict(<<Item(<<"r","e","s","t","i","n","g","H","e","a","r","t","R","a","t","e">>, PyInt(48)),
                                  Item(<<"t","o","t","a","l","S","t","e","p","s">>, PyInt(12000))>>),
        !.sleep_data = PyDict(<<Item(<<"d","a","i","l","y","S","l","e","e","p","D","T","O">>,
                                     PyDict(<<Item(<<"s","l","e","e","p","T","i","m","e","S","e","c","o","n","d","s">>, PyInt(25200)),
                                              Item(<<"d","e","e","p","S","l","e","e","p","S","e","c","o","n","d","s">>, PyStr(<<"n","/","a">>))>>))>>),
        !.has_get_training_status = FALSE,
        !.body_composition =
            PyDict(<<Item(<<"t","o","t","a","l","A","v","e","r","a","g","e">>,
                          PyDict(<<Item(<<"w","e","i","g","h","t">>, PyInt(79500)),
                                   Item(<<"m","u","s","c","l","e","M","a","s","s">>, PyStr(<<"n","/","a">>)),
                                   Item(<<"b","o","d","y","F","a","t">>, PyFloat(18000))>>))>>),
        !.has_get_hrv_data = FALSE,
        !.hrv_endpoint = PyDict(<<Item(<<"h","r","v","S","u","m","m","a","r","y">>, PyDict(<<Item(<<"s","t","a","t","u","s">>, PyStr(<<"L","O","W">>))>>))>>),
        !.acts_empty = Raise,
        !.acts_none = PyList(<<WellnessAct(<<"E","v","e","n","i","n","g"," ","R","u","n">>, <<"r","u","n","n","i","n","g">>), ActNotAMapping>>)]

\* every data call raises
WellnessApiDown ==
    [user_summary |-> Raise, sleep_data |-> Raise, has_get_training_status |-> TRUE,
     training_status |-> Raise, body_composition |-> Raise, has_get_hrv_data |-> TRUE,
     hrv_data |-> Raise, hrv_endpoint |-> Raise, acts_empty |-> Raise, acts_none |-> Raise]

WellnessApis == {WellnessApiFull, WellnessApiLater, WellnessApiDown}

\* a row as an earlier version of the job left it: the date and a weight
StaleRow(day) == <<day, <<"1","7","0",".","0">>>>

\* wellness files a run may find: none, an empty one, the header alone, rows
\* of both dates, a date twice with a blank line and out of order, and a file
\* whose first line is a data row
InitialWellnessFiles ==
    {AbsentFile,
     File(<<>>),
     File(<<HEADERS>>),
     File(<<HEADERS, StaleRow(WellnessDates[1]), StaleRow(WellnessDates[2])>>),
     File(<<HEADERS, StaleRow(WellnessDates[2]), <<>>, StaleRow(WellnessDates[1]),
            StaleRow(WellnessDates[1])>>),
     File(<<StaleRow(WellnessDates[1]), StaleRow(WellnessDates[1])>>)}

\* what a run did: whether it saved, for which date, and the line it computed
NoWellnessRun == [saved |-> FALSE, today |-> <<>>, line |-> <<>>]

\* bound: wellness runs in one behaviour
MaxWellnessRuns == 2

WellnessInit ==
    /\ wcsv \in InitialWellnessFiles
    /\ w_day = 1
    /\ w_runs = 0
    /\ w_prev = NoWellnessRun
    /\ w_last = NoWellnessRun

WellnessIdle ==
    wcsv = AbsentFile /\ w_day = 1 /\ w_runs = 0 /\ w_prev = NoWellnessRun /\ w_last = NoWellnessRun

\* the run saved line for today
Saved(today, line, readFails) ==
    /\ wcsv' = smart_save(wcsv, today, line, readFails)
    /\ w_last' = [saved |-> TRUE, today |-> today, line |-> line]

\* main of garmin_stats_daily.py with the session resumed and the filter loaded
WellnessMain(api, flt, readFails) ==
    /\ w_runs < MaxWellnessRuns
    /\ w_runs' = w_runs + 1
    /\ w_prev' = w_last
    /\ Saved(WellnessDates[w_day], WrittenLine(new_row(api, WellnessDates[w_day], flt)),
             readFails)
    /\ UNCHANGED <<w_day, notWellnessVars>>

\* main when garth.resume or load_activity_filter raises: "Global Error" is
\* printed and nothing is written
WellnessSetupFails ==
    /\ w_runs < MaxWellnessRuns
    /\ w_runs' = w_runs + 1
    /\ w_prev' = w_last
    /\ w_last' = [saved |-> FALSE, today |-> WellnessDates[w_day], line |-> <<>>]
    /\ UNCHANGED <<wcsv, w_day, notWellnessVars>>

\* the date changes between two runs
Midnight ==
    /\ w_day < Len(WellnessDates)
    /\ w_day' = w_day + 1
    /\ UNCHANGED <<wcsv, w_runs, w_prev, w_last, notWellnessVars>>

\* runs of the wellness job, a failed read of the existing file included
WellnessNext ==
    \/ \E api \in WellnessApis, flt \in RunFilters, readFails \in BOOLEAN :
           WellnessMain(api, flt, readFails)
    \/ WellnessSetupFails
    \/ Midnight

(***************************************************************************)
(* garmin_stats_history.py: the wellness backfill, one date at a time.     *)
(* Its five data blocks and its row are those of the daily job, computed   *)
(* for day_str instead of today.                                           *)
(***************************************************************************)
\* the dates from START_DATE on: START_DATE is the day before the first date
\* date.today() takes
HistoryDates == <<<<"2","0","2","3","-","1","2","-","3","1">>>> \o WellnessDates

\* bound: wellness history runs in one behaviour
MaxHistoryRuns == 2

HistoryIdle ==
    [pc |-> "idle", count |-> 0, flt |-> [include_types |-> {}, exclude_types |-> {}],
     current |-> 1, end |-> 0, existing_dates |-> {}, found |-> {}, written |-> <<>>]

\* "if not os.path.isfile(CSV_FILE): ... writer.writerow(HEADERS)"
with_header(f) == IF f.exists THEN f ELSE File(<<HEADERS>>)

\* bug: the dates already stored are not looked up
load_existing_dates_Empty(f, readFails) == {}

\* "next(reader, None); for row in reader: if row and row[0]: dates.add(row[0])";
\* a failed read leaves the dates read so far, here none
load_existing_dates(f, readFails) ==
    IF ~f.exists \/ readFails \/ f.rows = <<>> THEN {}
    ELSE {f.rows[i][1] : i \in {k \in 2..Len(f.rows) : f.rows[k] # <<>> /\ f.rows[k][1] # <<>>}}

\* the run after the login and load_activity_filter, on the file f it found
\* or created; end = date.today() - timedelta(days=1)
history_started(ok, flt, f) ==
    IF ~ok \/ flt = Raise THEN [HistoryIdle EXCEPT !.count = h_run.count + 1]
    ELSE [HistoryIdle EXCEPT !.pc = "days", !.count = h_run.count + 1, !.flt = flt,
                             !.end = w_day,
                             !.existing_dates = load_existing_dates(f, FALSE),
                             !.found = load_existing_dates(f, FALSE)]

\* main up to "current_date = start"
WellnessHistoryStart(ok, flt) ==
    /\ h_run.pc = "idle"
    /\ h_run.count < MaxHistoryRuns
    /\ wcsv' = with_header(wcsv)
    /\ h_run' = history_started(ok, flt, with_header(wcsv))
    /\ UNCHANGED <<w_day, w_runs, w_prev, w_last, notWellnessJobsVars>>

\* 'with open(CSV_FILE, mode="a") ... writer.writerow(row)'
history_append(f, line) == File(f.rows \o <<line>>)

\* the date was written: "existing_dates.add(day_str)"
history_written(day) ==
    [h_run EXCEPT !.current = @ + 1, !.existing_dates = @ \cup {day},
                  !.written = Append(@, day)]

\* one iteration of "while current_date <= end" for the date day; writes:
\* the append succeeds (a failure is caught and the date is left out)
history_day(api, day, writes) ==
    IF day \in h_run.existing_dates \/ ~writes
    THEN /\ h_run' = [h_run EXCEPT !.current = @ + 1]
         /\ UNCHANGED wcsv
    ELSE /\ wcsv' = history_append(wcsv, WrittenLine(new_row(api, day, h_run.flt)))
         /\ h_run' = history_written(day)

WellnessHistoryDay(api, writes) ==
    /\ h_run.pc = "days"
    /\ h_run.current <= h_run.end
    /\ history_day(api, HistoryDates[h_run.current], writes)
    /\ UNCHANGED <<w_day, w_runs, w_prev, w_last, notWellnessJobsVars>>

\* "--- HISTORY PULL COMPLETE ---"
WellnessHistoryDone ==
    /\ h_run.pc = "days"
    /\ h_run.current > h_run.end
    /\ h_run' = [h_run EXCEPT !.pc = "idle"]
    /\ UNCHANGED <<wcsv, w_day, w_runs, w_prev, w_last, notWellnessJobsVars>>

\* the upstreams and the filter file of the history runs
HistoryApis == {WellnessApiFull, WellnessApiDown}
HistoryFilters == {[include_types |-> {<<"r","u","n","n","i","n","g">>, <<"v","i","r","t","u","a","l","_","r","i","d","e">>}, exclude_types |-> {}], Raise}

\* serialized runs of the two wellness jobs on one CSV path, every read of
\* the file succeeding
WellnessBothNext ==
    \/ /\ h_run.pc = "idle"
       /\ \E api \in WellnessApis, flt \in RunFilters : WellnessMain(api, flt, FALSE)
    \/ h_run.pc = "idle" /\ WellnessSetupFails
    \/ h_run.pc = "idle" /\ Midnight
    \/ \E ok \in BOOLEAN, flt \in HistoryFilters : WellnessHistoryStart(ok, flt)
    \/ \E api \in HistoryApis, writes \in BOOLEAN : WellnessHistoryDay(api, writes)
    \/ WellnessHistoryDone

(***************************************************************************)
(* One call of a helper function, on arguments drawn from bounded sets     *)
(***************************************************************************)
NoCall == [fn |-> "", args |-> <<>>]
CallOf(fn, args) == [fn |-> fn, args |-> args]

\* power_w and ftp_watts as a caller may hand them over: absent, zero,
\* negative, whole and fractional watts, numeric and other text
WattArgs ==
    {None, PyInt(0), PyFloat(0), PyInt(-100), PyFloat(-187500), PyInt(200),
     PyFloat(187500), PyFloat(250000), PyStr(<<>>), PyStr(<<"2","0","0">>), PyStr(<<"n","/","a">>)}

\* duration_s: absent, zero, negative, an hour, half an hour and a half second
DurationArgs == {None, PyFloat(0), PyFloat(-3600000), PyFloat(3600000), PyFloat(1800500)}

IntensityCalls == {CallOf("intensity_factor", <<p, f>>) : p \in WattArgs, f \in WattArgs}
TssCalls == {CallOf("tss", <<d, p, f>>) : d \in DurationArgs, p \in WattArgs, f \in WattArgs}

\* speeds up to MaxSpeedMilli thousandths of a metre per second, and the
\* speeds around a mile a minute, a mile an hour and a mile a day
MaxSpeedMilli == 3000
SpeedArgs ==
    {None, PyInt(0), PyInt(-3), PyFloat(-2680), PyInt(3), PyInt(27)}
        \cup {PyFloat(n) : n \in 0..MaxSpeedMilli}
        \cup {PyFloat(n) : n \in {26822, 26823, 447040, 1609344, 1609345}}
PaceCalls == {CallOf("format_pace_min_mile", <<s>>) : s \in SpeedArgs}

\* payloads: scalars, and mappings and sequences of payloads nested up to
\* MaxDepth deep; the keys match a 20 minute hint, a normalized power hint,
\* no hint, an allow-listed FTP name (exactly, and after normalization), a
\* name that only contains one, and the "value" of a wrapped number
PayloadLeaves ==
    {None, PyInt(0), PyInt(-5), PyInt(20), PyInt(300), PyInt(1500), PyFloat(262500),
     PyStr(<<"3","1","0">>), PyStr(<<"n","/","a">>)}
PayloadKeys ==
    {<<"B","e","s","t","2","0","M","i","n","P","o","w","e","r">>, <<"n","o","r","m","a","l","i","z","e","d","P","o","w","e","r">>, <<"a","v","g","P","o","w","e","r">>, <<"F","T","P">>,
     <<"f","u","n","c","t","i","o","n","a","l","_","t","h","r","e","s","h","o","l","d","_","p","o","w","e","r">>, <<"f","t","p","H","i","s","t","o","r","y">>, <<"v","a","l","u","e">>}
MaxDepth == 2
RECURSIVE Payloads(_)
Payloads(d) ==
    IF d = 0 THEN PayloadLeaves
    ELSE PayloadLeaves
            \cup {PyDict(<<Item(k, v)>>) : k \in PayloadKeys, v \in Payloads(d - 1)}
            \cup {PyList(<<v>>) : v \in Payloads(d - 1)}

\* mappings of two items, for the order in which the items are visited
PairValues == {PyInt(0), PyInt(20), PyInt(300), PyDict(<<Item(<<"v","a","l","u","e">>, PyFloat(262500))>>)}
PairItems == {Item(k, v) : k \in PayloadKeys, v \in PairValues}
PairDicts == {PyDict(<<p[1], p[2]>>) : p \in {q \in PairItems \X PairItems : q[1][1] # q[2][1]}}

CallPayloads == Payloads(MaxDepth) \cup PairDicts
HintSets == {Best20mHints, NormalizedPowerHints, {}}
ScanCalls == {CallOf("scan_for_keys", <<obj, hints>>) : obj \in CallPayloads, hints \in HintSets}
StrictCalls == {CallOf("extract_ftp_watts_strict", <<obj>>) : obj \in CallPayloads}

\* to_row: activity records that are empty, full, without identifier and
\* with a field the schema does not know; no detail, an empty and a full
\* detail payload; an unresolved and a resolved FTP
ActWithExtraField ==
    PyDict(<<Item(<<"a","c","t","i","v","i","t","y","I","d">>, PyInt(5)), Item(<<"v","O","2","M","a","x","V","a","l","u","e">>, PyInt(52)),
             Item(<<"d","i","s","t","a","n","c","e">>, PyStr(<<"n","/","a">>))>>)
\* types as a display name: in the structured sub-object and as a flat string
ActTypeName ==
    PyDict(<<Item(<<"a","c","t","i","v","i","t","y","I","d">>, PyInt(6)),
             Item(<<"a","c","t","i","v","i","t","y","T","y","p","e">>, PyDict(<<Item(<<"t","y","p","e","N","a","m","e">>, PyStr(<<"V","i","r","t","u","a","l"," ","R","i","d","e">>))>>))>>)
ActFlatType ==
    PyDict(<<Item(<<"a","c","t","i","v","i","t","y","I","d">>, PyInt(7)), Item(<<"a","c","t","i","v","i","t","y","T","y","p","e","N","a","m","e">>, PyStr(<<"I","n","d","o","o","r"," ","C","y","c","l","i","n","g">>))>>)
RowActs ==
    {PyDict(<<>>), ActMorningRun, ActZwift, ActSpinningNoId, ActWithExtraField, ActTypeName,
     ActFlatType}
RowDetails == {None, PyDict(<<>>), RunDetail}
RowFtps == {<<None, <<"m","i","s","s","i","n","g">>>>, <<PyFloat(250000), <<"g","a","r","m","i","n","_","s","e","t","t","i","n","g","s">>>>, <<PyFloat(228000), <<"v","i","r","t","u","a","l","_","r","i","d","e","_","b","e","s","t","_","2","0","m">>>>}
RowCalls ==
    {CallOf("to_row", <<act, detail, ftp[1], ftp[2]>>) :
        act \in RowActs, detail \in RowDetails, ftp \in RowFtps}

\* coerce_activity_id: records in which each of the three identifier fields
\* is absent, zero, empty, a number or a text
IdValues == {None, PyInt(0), PyStr(<<>>), PyInt(12), PyStr(<<"a","7">>)}
IdItems(k, v) == IF v = None THEN <<>> ELSE <<Item(k, v)>>
IdActs ==
    {PyDict(IdItems(<<"a","c","t","i","v","i","t","y","I","d">>, a) \o IdItems(<<"a","c","t","i","v","i","t","y","_","i","d">>, b) \o IdItems(<<"i","d">>, c)) :
        a \in IdValues, b \in IdValues, c \in IdValues}
CoerceCalls == {CallOf("coerce_activity_id", <<act>>) : act \in IdActs}

\* upstreams for the resolvers: settings inside and outside the bounds, none,
\* a raising method; lists of rides with details inside and outside them
ResolverApis ==
    {FtpApi(m[1], m[2], bio, l1, Raise, TRUE, d, [i \in FtpDetailIds |-> Raise]) :
        m \in {<<FALSE, None>>, <<TRUE, Raise>>, <<TRUE, None>>,
               <<TRUE, PyDict(<<Item(<<"f","t","p">>, PyInt(30))>>)>>,
               <<TRUE, PyDict(<<Item(<<"f","u","n","c","t","i","o","n","a","l","T","h","r","e","s","h","o","l","d","P","o","w","e","r">>, PyInt(250))>>)>>},
        bio \in {Raise, PyDict(<<Item(<<"c","y","c","l","i","n","g","F","t","p">>, PyInt(300))>>)},
        l1 \in {Raise, PyList(<<ActVirtualRide1>>), PyList(<<ActVirtualRide1, ActIndoorCycling2>>),
                PyList(<<ActNotAMapping>>)},
        d \in [FtpDetailIds -> FtpDetailResponses]}

ResolverNames == {"resolve_ftp", "ftp_resolver.resolve_ftp"}

ResolverCalls == {CallOf(fn, <<api>>) : fn \in ResolverNames, api \in ResolverApis}

Calls ==
    ResolverCalls \cup CoerceCalls \cup IntensityCalls \cup TssCalls \cup PaceCalls \cup ScanCalls \cup StrictCalls \cup RowCalls

CallInit == p_call \in Calls /\ p_done = FALSE /\ p_out = None

Returns(fn, value) ==
    /\ p_call.fn = fn
    /\ ~p_done
    /\ p_done' = TRUE
    /\ p_out' = value
    /\ UNCHANGED <<p_call, notCallVars>>

IntensityFactor ==
    /\ p_call.fn = "intensity_factor"
    /\ Returns("intensity_factor", intensity_factor(p_call.args[1], p_call.args[2]))

Tss ==
    /\ p_call.fn = "tss"
    /\ Returns("tss", tss(p_call.args[1], p_call.args[2], p_call.args[3]))

FormatPace ==
    /\ p_call.fn = "format_pace_min_mile"
    /\ Returns("format_pace_min_mile", format_pace_min_mile(p_call.args[1]))

ScanForKeys ==
    /\ p_call.fn = "scan_for_keys"
    /\ Returns("scan_for_keys", scan_for_keys(p_call.args[1], p_call.args[2]))

ExtractFtpWattsStrict ==
    /\ p_call.fn = "extract_ftp_watts_strict"
    /\ Returns("extract_ftp_watts_strict", extract_ftp_watts_strict(p_call.args[1]))

ToRow ==
    /\ p_call.fn = "to_row"
    /\ Returns("to_row", to_row(p_call.args[1], p_call.args[2], p_call.args[3], p_call.args[4]))

CoerceActivityId ==
    /\ p_call.fn = "coerce_activity_id"
    /\ Returns("coerce_activity_id", coerce_activity_id(p_call.args[1]))

\* an FtpResult, or Raise when the resolution raised
outcome_or_raise(o) == IF o.raised THEN Raise ELSE o.res

\* resolve_ftp of the daily and the history script
ResolveFtpOfScripts ==
    /\ p_call.fn = "resolve_ftp"
    /\ Returns("resolve_ftp", outcome_or_raise(resolve_ftp(p_call.args[1])))

\* resolve_ftp of ftp_resolver.py
ResolveFtpOfModule ==
    /\ p_call.fn = "ftp_resolver.resolve_ftp"
    /\ Returns("ftp_resolver.resolve_ftp", ftp_resolver_resolve_ftp(p_call.args[1]))

CallNext ==
    ResolveFtpOfScripts \/ ResolveFtpOfModule \/ CoerceActivityId \/ IntensityFactor \/ Tss \/ FormatPace \/ ScanForKeys \/ ExtractFtpWattsStrict \/ ToRow

(***************************************************************************)
(* cloud_run_entrypoint.py: one execution of the cloud job                 *)
(***************************************************************************)
\* the CSV files of the two job scripts, as sorted(save_path.glob("*.csv"))
\* orders them
CsvNames == <<"garmin_activities.csv", "garmin_stats.csv">>

\* a call main made and how it ended: [op, arg, ok]
Event(op, arg, ok) == [op |-> op, arg |-> arg, ok |-> ok]

\* main goes on to pc after a call that returned, and ends on one that raised
AfterCall(op, arg, ok, pc) ==
    /\ c_log' = Append(c_log, Event(op, arg, ok))
    /\ c_pc' = IF ok THEN pc ELSE "failed"

\* the container starts with an empty SAVE_PATH; the Drive folder and the
\* bucket hold what earlier executions left
CloudInit ==
    /\ c_pc = "start"
    /\ c_log = <<>>
    /\ c_local = {}
    /\ c_drive \in SUBSET Range(CsvNames)
    /\ c_token \in BOOLEAN

\* "token_uri = os.environ[...]; drive_folder_id = os.environ[...]": a
\* missing variable raises KeyError
ReadEnv(ok) ==
    /\ c_pc = "start"
    /\ AfterCall("environ", "", ok, "pull_token")
    /\ UNCHANGED <<c_local, c_drive, c_token, notCloudVars>>

\* download_token_cache: raises when the object does not exist, or when the
\* download or the extraction fails
DownloadTokenCache(ok) ==
    /\ c_pc = "pull_token"
    /\ AfterCall("download_token_cache", "", ok /\ c_token, "pull_activities")
    /\ UNCHANGED <<c_local, c_drive, c_token, notCloudVars>>

\* download_file_if_exists(folder, name, save_path / name): the file is
\* written when the folder holds it; a Drive error raises
Pulled(name, ok, pc) ==
    /\ AfterCall("download_file_if_exists", name, ok, pc)
    /\ c_local' = IF ok /\ name \in c_drive THEN c_local \cup {name} ELSE c_local
    /\ UNCHANGED <<c_drive, c_token, notCloudVars>>

PullActivities(ok) == c_pc = "pull_activities" /\ Pulled(CsvNames[1], ok, "pull_stats")

PullStats(ok) == c_pc = "pull_stats" /\ Pulled(CsvNames[2], ok, "run_activities")

\* run_cmd ignoring the return code
run_cmd_IgnoreStatus(returncode) == TRUE

\* run_cmd: "if p.returncode != 0: raise RuntimeError"
run_cmd(returncode) == returncode = 0

\* run_cmd(["python", script]): the script leaves its CSV written or not and
\* exits with returncode
Ran(script, name, wrote, returncode, pc) ==
    /\ c_log' = Append(c_log, [op |-> "run_cmd", arg |-> script, ok |-> run_cmd(returncode),
                               returncode |-> returncode])
    /\ c_pc' = IF run_cmd(returncode) THEN pc ELSE "failed"
    /\ c_local' = IF wrote THEN c_local \cup {name} ELSE c_local
    /\ UNCHANGED <<c_drive, c_token, notCloudVars>>

RunActivitiesDaily(wrote, returncode) ==
    /\ c_pc = "run_activities"
    /\ Ran("garmin_activities_daily.py", CsvNames[1], wrote, returncode, "run_stats")

RunStatsDaily(wrote, returncode) ==
    /\ c_pc = "run_stats"
    /\ Ran("garmin_stats_daily.py", CsvNames[2], wrote, returncode, "upload_csvs")

\* the files of names, in the order of CsvNames
SortedCsvs(names) == SelectSeq(CsvNames, LAMBDA n : n \in names)

\* the events of "for p in csvs: upload_or_replace_csv(folder_id, p)" when
\* the upload of file number failAt raises (0: none does)
UploadEvents(csvs, failAt) ==
    [i \in 1..(IF failAt = 0 THEN Len(csvs) ELSE failAt) |->
        Event("upload_or_replace_csv", csvs[i], i # failAt)]

\* the names the loop uploaded
Uploaded(csvs, failAt) ==
    {csvs[i] : i \in 1..(IF failAt = 0 THEN Len(csvs) ELSE failAt - 1)}

\* upload_all_csvs(drive_folder_id, save_path) on the sorted files csvs
UploadedAll(csvs, failAt) ==
    /\ c_log' = c_log \o <<Event("upload_all_csvs", "", TRUE)>> \o UploadEvents(csvs, failAt)
                      \o <<Event("upload_all_csvs_end", "", failAt = 0)>>
    /\ c_drive' = c_drive \cup Uploaded(csvs, failAt)
    /\ c_pc' = IF failAt = 0 THEN "upload_token" ELSE "failed"

UploadAllCsvs(failAt) ==
    /\ c_pc = "upload_csvs"
    /\ failAt <= Len(SortedCsvs(c_local))
    /\ UploadedAll(SortedCsvs(c_local), failAt)
    /\ UNCHANGED <<c_local, c_token, notCloudVars>>

\* upload_token_cache(token_uri, garth_dir)
UploadTokenCache(ok) ==
    /\ c_pc = "upload_token"
    /\ AfterCall("upload_token_cache", "", ok, "done")
    /\ c_token' = (c_token \/ ok)
    /\ UNCHANGED <<c_local, c_drive, notCloudVars>>

ReturnCodes == {0, 1, 2}

CloudNext ==
    \/ \E ok \in BOOLEAN : ReadEnv(ok)
    \/ \E ok \in BOOLEAN : DownloadTokenCache(ok)
    \/ \E ok \in BOOLEAN : PullActivities(ok)
    \/ \E ok \in BOOLEAN : PullStats(ok)
    \/ \E wrote \in BOOLEAN, returncode \in ReturnCodes : RunActivitiesDaily(wrote, returncode)
    \/ \E wrote \in BOOLEAN, returncode \in ReturnCodes : RunStatsDaily(wrote, returncode)
    \/ \E failAt \in 0..Len(CsvNames) : UploadAllCsvs(failAt)
    \/ \E ok \in BOOLEAN : UploadTokenCache(ok)

(***************************************************************************)
(* Two instances of the activity jobs on one CSV path.  Nothing in the     *)
(* scripts locks the file, so the steps of two processes interleave at     *)
(* every file access: an instance reads the file at its start (migration   *)
(* and load_existing_activity_ids) and writes it at each append.           *)
(***************************************************************************)
JobInstances == {1, 2}

JobIdle ==
    [pc |-> "idle", kind |-> "daily", flt |-> [include_types |-> {}, exclude_types |-> {}],
     existing_ids |-> {}, ftp |-> FtpMissing, current |-> 0, end |-> 0,
     alone |-> TRUE, loaded_at |-> 0, offered |-> {}, appended |-> {}]

\* the CSV the two instances find
PairFiles == {AbsentFile, File(<<DESIRED_FIELDS, StoredLine(ActHike)>>)}

\* the upstream lists an instance may be given
PairApis ==
    {RunApi(PyList(l), Raise, NoTypedActs, RunDetail) :
        l \in {<<>>, <<ActMorningRun>>, <<ActZwift>>, <<ActMorningRun, ActZwift>>}}

\* the upstream the FTP of an instance is resolved against
PairFtpApis ==
    {FtpApi(TRUE, PyDict(<<Item(<<"f","u","n","c","t","i","o","n","a","l","T","h","r","e","s","h","o","l","d","P","o","w","e","r">>, PyInt(250))>>), None,
            Raise, Raise, FALSE, << >>, << >>)}

\* a daily run, and a history run of two chunks
PairRuns == {<<"daily", 0>>, <<"history", CHUNK_DAYS + 1>>}

PairInit ==
    /\ j_csv \in PairFiles
    /\ j_inst = [i \in JobInstances |-> JobIdle]

\* an instance is between its start and its end
Running(inst) == inst.pc \in {"fetch", "chunk"}

\* the file as the migration of a starting instance leaves it
job_migrated(f) == IF f.exists THEN migrate_csv_to_schema(f, "none").file ELSE f

\* the instance after "flt = load_activity_filter(); existing_ids =
\* load_existing_activity_ids(CSV_FILE)", the login and resolve_ftp, none of
\* which touches the CSV
job_started(i, kind, span, flt, f, r) ==
    IF flt = Raise \/ r.raised THEN [JobIdle EXCEPT !.pc = "done"]
    ELSE [JobIdle EXCEPT !.pc = IF kind = "daily" THEN "fetch" ELSE "chunk",
                         !.kind = kind, !.flt = flt, !.end = span, !.ftp = r.res,
                         !.existing_ids = load_existing_activity_ids(f, FALSE),
                         !.alone = \A k \in JobInstances \ {i} : ~Running(j_inst[k]),
                         !.loaded_at = Len(f.rows)]

\* main from its first line to resolve_ftp
JobStart(i, kind, span, flt, api) ==
    /\ j_inst[i].pc = "idle"
    /\ j_csv' = job_migrated(j_csv)
    /\ j_inst' = [j_inst EXCEPT ![i] = job_started(i, kind, span, flt, job_migrated(j_csv),
                                                    resolve_ftp(api))]
    /\ UNCHANGED notPairVars

\* as if the identifiers were read again from the file at each append
job_existing_ids_Reloaded(inst, f) == load_existing_activity_ids(f, FALSE)

\* "if act_id in existing_ids": the set the instance loaded at its start and
\* extends itself; the file f is not read again
job_existing_ids(inst, f) == inst.existing_ids

\* the loop over the fetched list fa, and the sort
job_rows(inst, api, fa, f) ==
    IF fa.raised THEN [raised |-> TRUE, lines |-> <<>>, existing_ids |-> inst.existing_ids]
    ELSE IF fa.acts = <<>>
    THEN [raised |-> FALSE, lines |-> <<>>, existing_ids |-> inst.existing_ids]
    ELSE SortedRows(collect_new_rows(api, inst.flt, inst.ftp, fa.acts,
                                     [new_rows |-> <<>>,
                                      existing_ids |-> job_existing_ids(inst, f),
                                      skipped_dup |-> 0, fetched |-> {}, raised |-> FALSE]))

\* the file after the instance's append of the rows n
job_written(n, f) == IF n.raised THEN f ELSE append_rows(f, n.lines)

\* the identifiers of the rows n
job_appended(inst, n) ==
    IF n.raised \/ n.lines = <<>> THEN inst.appended
    ELSE inst.appended \cup (n.existing_ids \ inst.existing_ids)

\* the identifiers of the activities of the fetched list fa the instance has
\* not stored and its filter allows
job_offered(inst, fa) ==
    IF fa.raised THEN inst.offered
    ELSE inst.offered \cup
         {coerce_activity_id(fa.acts[k]).s :
             k \in {m \in 1..Len(fa.acts) :
                       /\ fa.acts[m].tag = "dict"
                       /\ Truthy(coerce_activity_id(fa.acts[m]))
                       /\ coerce_activity_id(fa.acts[m]).s \notin inst.existing_ids
                       /\ allows(inst.flt, PyStr(normalize_activity_type(fa.acts[m])))}}

\* the rest of the daily main of instance i
job_body(i, n, fa) ==
    /\ j_csv' = job_written(n, j_csv)
    /\ j_inst' = [j_inst EXCEPT ![i].pc = "done", ![i].appended = job_appended(j_inst[i], n),
                                ![i].offered = job_offered(j_inst[i], fa)]

JobDailyBody(i, api) ==
    /\ j_inst[i].pc = "fetch"
    /\ job_body(i, job_rows(j_inst[i], api, fetch_activities(api), j_csv), fetch_activities(api))
    /\ UNCHANGED notPairVars

\* one iteration of "while current <= end" of the history main of instance i
job_chunk(i, n, fa, chunk_end) ==
    /\ j_csv' = job_written(n, j_csv)
    /\ j_inst' = [j_inst EXCEPT ![i].pc = IF n.raised THEN "done" ELSE "chunk",
                                ![i].current = chunk_end + 1,
                                ![i].existing_ids = n.existing_ids,
                                ![i].appended = job_appended(j_inst[i], n),
                                ![i].offered = job_offered(j_inst[i], fa)]

JobChunk(i, api) ==
    /\ j_inst[i].pc = "chunk"
    /\ j_inst[i].current <= j_inst[i].end
    /\ job_chunk(i, job_rows(j_inst[i], api, fetch_activities(api), j_csv), fetch_activities(api),
                 IF j_inst[i].current + CHUNK_DAYS > j_inst[i].end THEN j_inst[i].end
                 ELSE j_inst[i].current + CHUNK_DAYS)
    /\ UNCHANGED notPairVars

JobHistoryDone(i) ==
    /\ j_inst[i].pc = "chunk"
    /\ j_inst[i].current > j_inst[i].end
    /\ j_inst' = [j_inst EXCEPT ![i].pc = "done"]
    /\ UNCHANGED <<j_csv, notPairVars>>

PairNext ==
    \E i \in JobInstances :
        \/ \E r \in PairRuns, flt \in RunFilters \cup {Raise}, api \in PairFtpApis :
              JobStart(i, r[1], r[2], flt, api)
        \/ \E api \in PairApis : JobDailyBody(i, api)
        \/ \E api \in PairApis : JobChunk(i, api)
        \/ JobHistoryDone(i)

(***************************************************************************)
(* garmin_activities_history.py: the loop "while current <= end" of main   *)
(* for any CHUNK_DAYS and any START_DATE.  Dates are days counted from     *)
(* START_DATE; what the loop does with the activities of a chunk is in     *)
(* Chunk above, here only whether the chunk had any and whether the loop   *)
(* body raised.                                                            *)
(***************************************************************************)
\* bounds: the largest CHUNK_DAYS and the largest number of days from
\* START_DATE to today
MaxChunkDays == 3
MaxSpanDays == 6

BackfillIdle == [pc |-> "done", chunk_days |-> 0, current |-> 0, end |-> 0, ranges |-> <<>>]

\* "start = parse_iso_date(START_DATE); end = date.today(); current = start";
\* a START_DATE after today gives end = -1
BackfillInit ==
    b_run \in {[pc |-> "loop", chunk_days |-> c, current |-> 0, end |-> e, ranges |-> <<>>] :
                  c \in 0..MaxChunkDays, e \in (-1)..MaxSpanDays}

\* the end of the range without the cap at today
chunk_end_of_Uncapped(current, chunk_days, end) == current + chunk_days

\* "chunk_end = current + timedelta(days=CHUNK_DAYS); if chunk_end > end:
\* chunk_end = end"
chunk_end_of(current, chunk_days, end) ==
    IF current + chunk_days > end THEN end ELSE current + chunk_days

\* what fetch_activities and the loop body did with a chunk
ChunkOutcomes == {"none", "rows", "raised"}

\* the loop after the range [current, chunk_end] was asked for: both the
\* "if not activities" branch and the end of the body set
\* "current = chunk_end + timedelta(days=1)"; an exception ends main
after_chunk(chunk_end, outcome) ==
    [b_run EXCEPT !.pc = IF outcome = "raised" THEN "failed" ELSE "loop",
                  !.current = IF outcome = "raised" THEN @ ELSE chunk_end + 1,
                  !.ranges = Append(@, [from |-> b_run.current, to |-> chunk_end,
                                        got |-> outcome])]

\* one iteration of "while current <= end"
BackfillChunk(outcome) ==
    /\ b_run.pc = "loop"
    /\ b_run.current <= b_run.end
    /\ b_run' = after_chunk(chunk_end_of(b_run.current, b_run.chunk_days, b_run.end), outcome)
    /\ UNCHANGED notBackfillVars

\* "--- HISTORY PULL COMPLETE ---"
BackfillDone ==
    /\ b_run.pc = "loop"
    /\ b_run.current > b_run.end
    /\ b_run' = [b_run EXCEPT !.pc = "done"]
    /\ UNCHANGED notBackfillVars

BackfillNext ==
    \/ \E outcome \in ChunkOutcomes : BackfillChunk(outcome)
    \/ BackfillDone

(***************************************************************************)
(* Specifications                                                          *)
(***************************************************************************)
FilterUnused == f_flt = [include_types |-> {}, exclude_types |-> {}] /\ f_type = None /\ f_res = FALSE
FtpUnused == r_api = None /\ r_done = TRUE /\ r_out = FtpIdle
RunUnused ==
    csv = AbsentFile /\ run = RunIdle /\ mig = NoMigration /\ last_append = NoAppend /\ runs = 0
CallUnused == p_call = NoCall /\ p_done = TRUE /\ p_out = None
CloudUnused == c_pc = "done" /\ c_log = <<>> /\ c_local = {} /\ c_drive = {} /\ c_token = FALSE
PairUnused == j_csv = AbsentFile /\ j_inst = [i \in JobInstances |-> JobIdle]
HistUnused == h_run = HistoryIdle
BackfillUnused == b_run = BackfillIdle

FilterSpecInit == BackfillUnused /\ HistUnused /\ PairUnused /\ CloudUnused /\ FtpUnused /\ RunUnused /\ WellnessIdle /\ CallUnused /\ FilterInit
FtpSpecInit == BackfillUnused /\ HistUnused /\ PairUnused /\ CloudUnused /\ FilterUnused /\ RunUnused /\ WellnessIdle /\ CallUnused /\ FtpInit
RunSpecInit == BackfillUnused /\ HistUnused /\ PairUnused /\ CloudUnused /\ FilterUnused /\ FtpUnused /\ WellnessIdle /\ CallUnused /\ RunInit
WellnessSpecInit == BackfillUnused /\ HistUnused /\ PairUnused /\ CloudUnused /\ FilterUnused /\ FtpUnused /\ RunUnused /\ CallUnused /\ WellnessInit
CallSpecInit == BackfillUnused /\ HistUnused /\ PairUnused /\ CloudUnused /\ FilterUnused /\ FtpUnused /\ RunUnused /\ WellnessIdle /\ CallInit
CloudSpecInit == BackfillUnused /\ HistUnused /\ PairUnused /\ FilterUnused /\ FtpUnused /\ RunUnused /\ WellnessIdle /\ CallUnused /\ CloudInit
PairSpecInit ==
    BackfillUnused /\ HistUnused /\ CloudUnused /\ FilterUnused /\ FtpUnused /\ RunUnused /\ WellnessIdle /\ CallUnused /\ PairInit

\* both wellness jobs, on a CSV path that holds no file yet
WellnessBothSpecInit ==
    BackfillUnused /\ PairUnused /\ CloudUnused /\ FilterUnused /\ FtpUnused /\ RunUnused /\ CallUnused
    /\ WellnessIdle /\ h_run = HistoryIdle

BackfillSpecInit ==
    HistUnused /\ PairUnused /\ CloudUnused /\ FilterUnused /\ FtpUnused /\ RunUnused
    /\ WellnessIdle /\ CallUnused /\ BackfillInit

\* the activity-type filter alone
SpecFilter == FilterSpecInit /\ [][Allows]_vars

\* one FTP resolution
SpecFtp == FtpSpecInit /\ [][Resolve]_vars

\* serialized daily and history runs on one CSV path, file system reliable
Spec == RunSpecInit /\ [][RunNext]_vars

\* the same runs with failing file-system calls
SpecFail == RunSpecInit /\ [][RunFailNext]_vars

\* serialized daily wellness runs on one CSV path
SpecWellness == WellnessSpecInit /\ [][WellnessNext]_vars

\* one call of one helper function of the activity jobs
SpecCall == CallSpecInit /\ [][CallNext]_vars

\* one execution of the cloud job
SpecCloud == CloudSpecInit /\ [][CloudNext]_vars

\* two instances of the activity jobs running at once on one CSV path
SpecPair == PairSpecInit /\ [][PairNext]_vars

\* serialized runs of the wellness history job and the daily wellness job
SpecWellnessBoth == WellnessBothSpecInit /\ [][WellnessBothNext]_vars

\* the loop of one activity history run
SpecBackfill == BackfillSpecInit /\ [][BackfillNext]_vars

\* the same, the process going on as long as it has a step to take
SpecBackfillFair == BackfillSpecInit /\ [][BackfillNext]_vars /\ WF_vars(BackfillNext)

\* C3: allows(t) is true exactly when t is non-empty, the normalized t is not
\* in exclude_types and the normalized t is in include_types; a type in both
\* sets is rejected and a type in neither set is rejected.
C3_AllowsRule ==
    LET nonEmpty == f_type # None /\ f_type.s # <<>>
        nt == str_replace(str_lower(str_strip(f_type.s)), " ", "_")
    IN  /\ f_res = (nonEmpty /\ nt \notin f_flt.exclude_types /\ nt \in f_flt.include_types)
        /\ (nonEmpty /\ nt \in f_flt.exclude_types /\ nt \in f_flt.include_types => ~f_res)
        /\ (nonEmpty /\ nt \notin f_flt.exclude_types /\ nt \notin f_flt.include_types => ~f_res)

\* an allowed type that needed trimming, lowercasing and underscoring, with
\* a non-empty exclude set
C3_Witness ==
    /\ f_type = PyStr(<<" ","v","i","r","t","u","a","l"," ","r","i","d","e"," ">>)
    /\ f_res
    /\ f_flt.exclude_types # {}

(***************************************************************************)
(* FTP resolution: what the claims read off one resolution                 *)
(***************************************************************************)
\* what the client method yields, None when absent, raising or without a value
MethodYield ==
    IF r_api.has_get_cycling_ftp /\ r_api.get_cycling_ftp # Raise
    THEN extract_ftp_watts_strict(r_api.get_cycling_ftp) ELSE None

\* what the settings tier (method, then biometric endpoint) yields
SettingsYield ==
    IF Truthy(MethodYield) THEN MethodYield
    ELSE IF r_api.biometric # Raise THEN extract_ftp_watts_strict(r_api.biometric)
    ELSE None

CallIndexes(ops) == {i \in 1..Len(r_out.calls) : r_out.calls[i].op \in ops}

SettingsCalls == CallIndexes({"get_cycling_ftp", "biometric_endpoint"})
ListCalls == CallIndexes({"get_activities_by_date"})
DetailCalls == CallIndexes({"get_activity_details", "activity_endpoint"})

\* C8: the tiers are tried in order and the first success wins: when the
\* settings tier yields a value, resolve_ftp returns it with source
\* "garmin_settings" and no best_20m_watts, and fetches no activity list and
\* no activity detail; the fallback is consulted only when the settings tier
\* yielded nothing.
C8_SettingsTierWins ==
    r_done =>
        /\ Truthy(SettingsYield) =>
              /\ ~r_out.raised
              /\ r_out.res = FtpResult(SettingsYield, <<"g","a","r","m","i","n","_","s","e","t","t","i","n","g","s">>, None)
              /\ ListCalls = {} /\ DetailCalls = {}
        /\ (ListCalls # {} \/ DetailCalls # {}) => ~Truthy(SettingsYield)
        /\ \A i \in SettingsCalls : \A j \in ListCalls \cup DetailCalls : i < j
        /\ \A i \in ListCalls : \A j \in DetailCalls : i < j

\* the settings tier succeeded although the activity list would have given
\* an estimate as well
C8_Witness ==
    /\ r_done
    /\ r_out.res.source = <<"g","a","r","m","i","n","_","s","e","t","t","i","n","g","s">>
    /\ r_api.acts_empty = PyList(<<ActVirtualRide1>>)
    /\ r_api.has_get_activity_details
    /\ r_api.detail_method[<<"1">>] = PyDict(<<Item(<<"m","a","x","A","v","g","P","o","w","e","r","_","2","0","m","i","n">>, PyInt(250))>>)

\* the list resolve_ftp iterates: the answer to the "" call, else to the None call
LookbackList ==
    LET r == IF r_api.acts_empty # Raise THEN r_api.acts_empty
             ELSE IF r_api.acts_none # Raise THEN r_api.acts_none ELSE None
    IN  IF r.tag = "list" THEN r.items ELSE <<>>

IsFallbackRide(a) ==
    /\ a.tag = "dict"
    /\ normalize_key(normalize_activity_type(a)) \in FtpFallbackTypes

HasIdentifier(a) == Truthy(coerce_activity_id(a))

IsCandidate(a) == IsFallbackRide(a) /\ HasIdentifier(a)

\* best 20 minute powers (thousandths of a watt) found in the detail payloads
\* of the identified rides among the first n elements of s
RidePowers(s, n) ==
    {extract_best_20m_power_w(fetch_activity_detail(r_api, coerce_activity_id(s[i]).s).value).n :
        i \in {k \in 1..Len(s) : k <= n /\ IsCandidate(s[k])
                  /\ Truthy(extract_best_20m_power_w(
                        fetch_activity_detail(r_api, coerce_activity_id(s[k]).s).value))}}

\* the result the fallback tier owes for a set of observed powers
ResultFor(powers) ==
    IF powers = {} THEN FtpMissing
    ELSE LET b == SetMax(powers)
             est == (95 * b) \div 100
         IN  IF 1000 * 50 <= est /\ est <= 1000 * 1200
             THEN FtpResult(PyFloat(est), <<"v","i","r","t","u","a","l","_","r","i","d","e","_","b","e","s","t","_","2","0","m">>, PyFloat(b))
             ELSE FtpMissing

FallbackCase == r_done /\ ~Truthy(SettingsYield) /\ ~r_out.raised

\* C9 as stated: without a settings value the result is computed from the
\* maximum over every virtual_ride / indoor_cycling / spinning activity of
\* the lookback list.
C9_MaxOverWholeList ==
    FallbackCase => r_out.res = ResultFor(RidePowers(LookbackList, Len(LookbackList)))

\* C9 (amended): without a settings value, best_20m is the maximum over the
\* first 60 identified rides of the lookback list only; ftp_watts is
\* 0.95 x best_20m with source "virtual_ride_best_20m", and the result is
\* (null, "missing", null) when no ride gave a value or the estimate is
\* outside 50..1200.
C9_MaxOverCheckedRides ==
    FallbackCase =>
        LET rides == SelectSeq(LookbackList, IsCandidate)
            checked == SubSeq(rides, 1, IF Len(rides) < 60 THEN Len(rides) ELSE 60)
        IN  r_out.res = ResultFor(RidePowers(checked, Len(checked)))

\* more identified rides than the guardrail admits, and an estimate from
\* the rides that were checked
C9_Witness ==
    /\ FallbackCase
    /\ Len(SelectSeq(LookbackList, IsCandidate)) > 60
    /\ r_out.res.source = <<"v","i","r","t","u","a","l","_","r","i","d","e","_","b","e","s","t","_","2","0","m">>

AllUpstreamCallsRaise ==
    /\ r_api.has_get_cycling_ftp => r_api.get_cycling_ftp = Raise
    /\ r_api.biometric = Raise
    /\ r_api.acts_empty = Raise /\ r_api.acts_none = Raise
    /\ \A i \in FtpDetailIds : r_api.detail_method[i] = Raise /\ r_api.detail_endpoint[i] = Raise

HasCall(op, arg) == \E i \in 1..Len(r_out.calls) : r_out.calls[i] = Call(op, arg)

\* C10: no exception of an upstream call leaves resolve_ftp: a failing tier
\* counts as "no value" and the next one is tried (method, biometric
\* endpoint, list with "", list with None; detail method, detail endpoint),
\* and when every upstream call fails the result is (null, "missing", null).
\* resolve_ftp raises only on a list element that is not a mapping.
C10_UpstreamErrorsSwallowed ==
    r_done =>
        /\ r_out.raised => \E i \in 1..Len(LookbackList) : LookbackList[i].tag # "dict"
        /\ AllUpstreamCallsRaise => ~r_out.raised /\ r_out.res = FtpMissing
        /\ (r_api.has_get_cycling_ftp /\ r_api.get_cycling_ftp = Raise)
              => HasCall("biometric_endpoint", <<>>)
        /\ (r_api.biometric = Raise /\ ~Truthy(MethodYield))
              => HasCall("get_activities_by_date", <<"'","'">>)
        /\ (r_api.acts_empty = Raise /\ ListCalls # {})
              => HasCall("get_activities_by_date", <<"N","o","n","e">>)
        /\ \A i \in FtpDetailIds :
              (HasCall("get_activity_details", i) /\ r_api.detail_method[i] = Raise)
                  => HasCall("activity_endpoint", i)

\* every upstream call raised and resolve_ftp returned after trying them all
C10_Witness ==
    /\ r_done
    /\ r_api.has_get_cycling_ftp
    /\ AllUpstreamCallsRaise
    /\ Len(r_out.calls) = 4

(***************************************************************************)
(* The activity CSV                                                        *)
(***************************************************************************)
\* the activity_id cell of every data row of f.  Under a header with an
\* activity_id column these are the cells of that column; a file whose
\* first line has no such column was created empty, so that every line of
\* it is a row appended in canonical order, with the identifier first.
ActivityIds(f) ==
    IF f.rows = <<>> THEN <<>>
    ELSE IF ColumnOf(f.rows[1], <<"a","c","t","i","v","i","t","y","_","i","d">>) > 0
    THEN [i \in 1..(Len(f.rows) - 1) |->
             IF ColumnOf(f.rows[1], <<"a","c","t","i","v","i","t","y","_","i","d">>) > Len(f.rows[i + 1]) THEN <<>>
             ELSE f.rows[i + 1][ColumnOf(f.rows[1], <<"a","c","t","i","v","i","t","y","_","i","d">>)]]
    ELSE [i \in 1..Len(f.rows) |-> IF f.rows[i] = <<>> THEN <<>> ELSE f.rows[i][1]]

\* C1: over any sequence of serialized daily and history runs on one CSV
\* path, whatever the upstream lists return (repeats within a list, across
\* chunks, across runs) and wherever a run ends, no two data rows of the
\* activity CSV carry the same activity_id.
C1_ActivityIdUnique ==
    LET ids == ActivityIds(csv)
    IN  \A i, j \in 1..Len(ids) : (i # j /\ ids[i] # <<>>) => ids[i] # ids[j]

\* a second run was offered an activity already stored, skipped it, and
\* appended another one
C1_Witness ==
    /\ runs >= 2
    /\ last_append.run = runs
    /\ last_append.skipped_dup >= 1
    /\ Len(ActivityIds(csv)) >= 2

\* the positions of a field name in a header
PositionsOf(header, name) == {p \in 1..Len(header) : header[p] = name}

CellAt(line, p) == IF p > Len(line) THEN <<>> ELSE line[p]

\* the run has migrated and not yet touched the file again
JustMigrated == run.pc \in {"load", "login", "resolve"}

DiffersFromSchema(f) == f.exists /\ f.rows # <<>> /\ f.rows[1] # <<>> /\ f.rows[1] # DESIRED_FIELDS

\* C4: an existing CSV whose header H differs from the canonical list C is
\* migrated: afterwards the header is C, the data rows are as many and in the
\* same order, each row keeps its value for every field of both H and C,
\* every field of C absent from H is empty, and the fields of H absent from C
\* are gone (every row has exactly the fields of C).
C4_MigrationResult ==
    (JustMigrated /\ DiffersFromSchema(mig.before)) =>
        LET old == mig.before.rows
            H == old[1]
        IN  /\ mig.status = "done"
            /\ Len(csv.rows) = Len(old)
            /\ csv.rows[1] = DESIRED_FIELDS
            /\ \A i \in 2..Len(old) :
                  /\ Len(csv.rows[i]) = Len(DESIRED_FIELDS)
                  /\ \A j \in 1..Len(DESIRED_FIELDS) :
                        IF PositionsOf(H, DESIRED_FIELDS[j]) = {}
                        THEN csv.rows[i][j] = <<>>
                        ELSE \E p \in PositionsOf(H, DESIRED_FIELDS[j]) :
                                csv.rows[i][j] = CellAt(old[i], p)

\* a file with a reordered header, a foreign column and two data rows was migrated
C4_Witness ==
    /\ JustMigrated
    /\ mig.status = "done"
    /\ Len(mig.before.rows) >= 3
    /\ mig.before.rows[1][1] # DESIRED_FIELDS[1]
    /\ \E p \in 1..Len(mig.before.rows[1]) : PositionsOf(DESIRED_FIELDS, mig.before.rows[1][p]) = {}
    /\ csv.rows[2][1] # <<>>

\* C5: when a step of the migration fails, the CSV is left as it was found,
\* no exception leaves migrate_csv_to_schema, and the run is at the point
\* where it loads the filter and the existing ids.
C5_FailedMigrationLeavesFile ==
    [][(runs' = runs + 1 /\ mig'.status = "failed")
          => (csv' = csv /\ ~mig'.raised /\ run'.pc = "load")]_vars

\* a migration that was needed failed, and the run went on past the loads
C5_Witness ==
    /\ mig.status = "failed"
    /\ DiffersFromSchema(mig.before)
    /\ Len(mig.before.rows) >= 2
    /\ run.pc = "login"

IsPrefix(s, t) == Len(s) <= Len(t) /\ SubSeq(t, 1, Len(s)) = s

\* C6: a daily or history run changes the file only by appending: the
\* content before is a prefix of the content after, the lines added are the
\* new rows, preceded by a header line exactly when the file did not exist.
C6_AppendOnly ==
    [][(run.pc \in {"fetch", "chunk"} /\ csv' # csv)
          => /\ last_append'.count = last_append.count + 1
             /\ csv'.exists
             /\ IsPrefix(csv.rows, csv'.rows)
             /\ csv'.rows = csv.rows \o (IF csv.exists THEN <<>> ELSE <<DESIRED_FIELDS>>)
                                     \o last_append'.rows
             /\ DESIRED_FIELDS \notin Range(last_append'.rows)]_vars

\* rows were appended to a file that already held rows
C6_Witness ==
    /\ last_append.count >= 1
    /\ last_append.pre.exists
    /\ Len(last_append.pre.rows) >= 2
    /\ Len(last_append.rows) >= 2
    /\ Len(csv.rows) = Len(last_append.pre.rows) + Len(last_append.rows)

\* C7: after a run that appended, whatever the CSV path held before (absent,
\* empty, canonical header, another header with migration succeeded or
\* failed), the first line is the canonical field list and every data row
\* has as many fields as the header.
C7_HeaderCanonicalAfterAppend ==
    (run.pc = "idle" /\ last_append.count >= 1 /\ last_append.run = runs) =>
        /\ csv.rows[1] = DESIRED_FIELDS
        /\ \A i \in 2..Len(csv.rows) : Len(csv.rows[i]) = Len(csv.rows[1])

(***************************************************************************)
(* The wellness CSV                                                        *)
(***************************************************************************)
\* the data rows of f whose Date cell is day
RowsOfDate(f, day) == {i \in 2..Len(f.rows) : f.rows[i] # <<>> /\ f.rows[i][1] = day}

\* the latest two wellness runs both reached the save, for the same date
SavedTwiceSameDate ==
    w_runs >= 2 /\ w_prev.saved /\ w_last.saved /\ w_prev.today = w_last.today

\* C2: after the daily wellness job ran twice for the same date, on whatever
\* file the first run found, the file has exactly one row whose Date cell is
\* that date, and the row is the line the second run computed.
C2_WellnessUpsert ==
    SavedTwiceSameDate =>
        /\ Cardinality(RowsOfDate(wcsv, w_last.today)) = 1
        /\ \A i \in RowsOfDate(wcsv, w_last.today) : wcsv.rows[i] = w_last.line

\* the second run computed other values than the first, and the file holds
\* rows of another date as well
C2_Witness ==
    /\ SavedTwiceSameDate
    /\ w_prev.line # w_last.line
    /\ Len(wcsv.rows) >= 3

(***************************************************************************)
(* Helper functions of the activity jobs (SpecCall)                        *)
(***************************************************************************)
Returned(fn) == p_done /\ p_call.fn = fn

\* v is None or a number that is not positive
IsNumber(v) == v.tag \in {"int", "float"}
NullOrNotPositive(v) == v = None \/ (IsNumber(v) /\ v.n <= 0)

\* C11: intensity_factor and tss return None whenever power or ftp_watts is
\* None or not positive, negative values included, and a tss that is not
\* None is never negative.
C11_MetricsNullUnlessPositive ==
    /\ Returned("intensity_factor") /\ (\E i \in 1..2 : NullOrNotPositive(p_call.args[i]))
            => p_out = None
    /\ Returned("tss") /\ (\E i \in 2..3 : NullOrNotPositive(p_call.args[i]))
            => p_out = None
    /\ Returned("tss") /\ p_out # None => p_out.n >= 0

\* the speed argument in thousandths of a metre per second
SpeedMilli(v) == IF v.tag = "int" THEN 1000 * v.n ELSE v.n

\* the text t reads M:SS, with M a number and SS exactly two digits
ColonAt(t) == CHOOSE i \in 1..Len(t) : t[i] = ":"
IsPaceText(t) ==
    /\ \E i \in 1..Len(t) : t[i] = ":"
    /\ IsDigits(SubSeq(t, 1, ColonAt(t) - 1))
    /\ Len(t) = ColonAt(t) + 2
    /\ IsDigits(SubSeq(t, ColonAt(t) + 1, Len(t)))
PaceMinutes(t) == DigitsVal(SubSeq(t, 1, ColonAt(t) - 1))
PaceSeconds(t) == DigitsVal(SubSeq(t, ColonAt(t) + 1, Len(t)))

\* minutes m and seconds ss are the floors the claim names, for the speed n in
\* thousandths: 26.8224 / s = 268224 / (10 n) minutes = 1609344 / n seconds
IsPaceOf(n, m, ss) ==
    /\ m * 10 * n <= 268224 /\ 268224 < (m + 1) * 10 * n
    /\ ss \in 0..59
    /\ (60 * m + ss) * n <= 1609344 /\ 1609344 < (60 * m + ss + 1) * n

C13_ScanPositiveOrNull ==
    Returned("scan_for_keys") => p_out = None \/ (p_out.tag = "float" /\ p_out.n > 0)

\* a payload with a zero and, under a matching key, a positive number gave
\* the positive number
C13_Witness ==
    /\ Returned("scan_for_keys")
    /\ p_call.args[1] = PyDict(<<Item(<<"a","v","g","P","o","w","e","r">>, PyInt(0)), Item(<<"B","e","s","t","2","0","M","i","n","P","o","w","e","r">>, PyInt(300))>>)
    /\ p_call.args[2] = Best20mHints
    /\ p_out = PyFloat(300000)

\* some mapping key of the payload, at any depth, contains a hint once lowercased
RECURSIVE AnyKeyHinted(_, _)
AnyKeyHinted(obj, key_hints) ==
    CASE obj.tag = "dict" ->
            \E i \in 1..Len(obj.items) :
                \/ \E h \in key_hints : str_contains(h, str_lower(obj.items[i][1]))
                \/ AnyKeyHinted(obj.items[i][2], key_hints)
      [] obj.tag = "list" -> \E i \in 1..Len(obj.items) : AnyKeyHinted(obj.items[i], key_hints)
      [] OTHER -> FALSE

\* C14: scan_for_keys returns a value only from a key whose lowercased name
\* contains a hint: for a payload in which no mapping key at any depth
\* contains a hint it returns None, whatever numbers the payload holds under
\* other keys or inside sequences.
C14_ScanOnlyFromHintedKeys ==
    Returned("scan_for_keys") /\ ~AnyKeyHinted(p_call.args[1], p_call.args[2]) => p_out = None

\* the numbers a payload holds as the value, or as the "value" member of the
\* value, of a key whose normalized name is allow-listed
StrictCandidatesOf(v) ==
    {safe_float(v)} \cup (IF v.tag = "dict" THEN {safe_float(dict_get(v, <<"v","a","l","u","e">>))} ELSE {})
RECURSIVE StrictCandidates(_)
StrictCandidates(obj) ==
    CASE obj.tag = "dict" ->
            UNION {(IF _norm_key(obj.items[i][1]) \in FtpAllowedKeys
                    THEN StrictCandidatesOf(obj.items[i][2]) ELSE {})
                        \cup StrictCandidates(obj.items[i][2]) : i \in 1..Len(obj.items)}
      [] obj.tag = "list" -> UNION {StrictCandidates(obj.items[i]) : i \in 1..Len(obj.items)}
      [] OTHER -> {}

\* C15: extract_ftp_watts_strict returns v only if 50 <= v <= 1200 and v is
\* the value, or the once unwrapped "value" member, of a key that is an
\* allow-listed name once lowercased and stripped of what is not a letter or
\* digit; a number under another key or outside 50..1200 is never returned.
C15_StrictExtractor ==
    Returned("extract_ftp_watts_strict") /\ p_out # None =>
        /\ p_out.tag = "float"
        /\ 50000 <= p_out.n /\ p_out.n <= 1200000
        /\ p_out \in StrictCandidates(p_call.args[1])

\* the wrapped value of an allow-listed key was returned
C15_Witness ==
    /\ Returned("extract_ftp_watts_strict")
    /\ p_call.args[1] = PyDict(<<Item(<<"F","T","P">>, PyDict(<<Item(<<"v","a","l","u","e">>, PyFloat(262500))>>))>>)
    /\ p_out = PyFloat(262500)

\* the field names of a row, in the order of its items
RowFieldNames(row) == [j \in 1..Len(row.items) |-> row.items[j][1]]

\* C16: whatever the activity, the detail payload and the FTP result, the row
\* to_row returns has the canonical field names in the canonical order, none
\* omitted and none added; a field that was not computed is there with None.
C16_RowHasCanonicalFields ==
    Returned("to_row") => p_out.tag = "dict" /\ RowFieldNames(p_out) = DESIRED_FIELDS

\* a row built from an empty activity record: every field but ftp_source,
\* the title and the texts of the start time is there with None
C16_Witness ==
    /\ Returned("to_row")
    /\ p_call.args[1] = PyDict(<<>>)
    /\ p_call.args[3] = None
    /\ dict_get(p_out, <<"a","c","t","i","v","i","t","y","_","i","d">>) = None
    /\ dict_get(p_out, <<"t","s","s">>) = None
    /\ Len(p_out.items) = 27

(***************************************************************************)
(* The activity jobs: FTP, filter and setup failures                       *)
(***************************************************************************)
FieldIndex(name) == CHOOSE j \in 1..Len(DESIRED_FIELDS) : DESIRED_FIELDS[j] = name

\* the step appends rows to the CSV
Appends == last_append' # last_append

\* the run is at the point where it fetches and normalizes activities
Normalizing(r) == r.pc \in {"fetch", "chunk"}

\* C17: within one daily or history run resolve_ftp is called exactly once,
\* before any activity is normalized, its result stays what it is while the
\* run goes on, and every row the run appends carries that ftp_watts and
\* ftp_source.
C17_FtpResolvedOncePerRun ==
    [][/\ Normalizing(run') => run'.ftp_calls = 1
       /\ Normalizing(run) /\ Normalizing(run') => run'.ftp = run.ftp
       /\ Appends =>
            /\ Normalizing(run)
            /\ \A i \in 1..Len(last_append'.rows) :
                /\ last_append'.rows[i][FieldIndex(<<"f","t","p","_","w","a","t","t","s">>)] = CsvCell(run.ftp.ftp_watts)
                /\ last_append'.rows[i][FieldIndex(<<"f","t","p","_","s","o","u","r","c","e">>)] = run.ftp.source]_vars

\* a history run that resolved an FTP has appended two rows carrying it and
\* goes on with its next chunk
C17_Witness ==
    /\ run.pc = "chunk"
    /\ run.ftp_calls = 1
    /\ run.ftp.ftp_watts # None
    /\ last_append.run = runs
    /\ Len(last_append.rows) >= 2
    /\ \A i \in 1..Len(last_append.rows) :
        last_append.rows[i][FieldIndex(<<"f","t","p","_","w","a","t","t","s">>)] = CsvCell(run.ftp.ftp_watts)

\* the type t, as written in a row, passes the filter: it is not empty, its
\* normalized form is not excluded and is included
TypePasses(flt, t) ==
    /\ t # <<>>
    /\ normalize_key(t) \notin flt.exclude_types
    /\ normalize_key(t) \in flt.include_types

\* C18: every row a daily or history run appends to the activity CSV is of
\* an activity whose type the filter the run loaded allows; no row of an
\* empty, an excluded or a not included type is written.
C18_AppendedRowsPassFilter ==
    [][Appends =>
        \A i \in 1..Len(last_append'.rows) :
            TypePasses(run.flt, last_append'.rows[i][FieldIndex(<<"a","c","t","i","v","i","t","y","_","t","y","p","e">>)])]_vars

\* a run whose filter excludes running has appended one ride and nothing
\* else, as it does from a list that also holds a run, a hike or a record
\* without a type
C18_Witness ==
    /\ run.pc = "chunk"
    /\ run.flt.exclude_types # {}
    /\ last_append.run = runs
    /\ Len(last_append.rows) = 1
    /\ last_append.rows[1][FieldIndex(<<"a","c","t","i","v","i","t","y","_","i","d">>)] = <<"2">>
    /\ last_append.skipped_dup = 0
    /\ last_append.pre.rows = <<>>

\* the run ends on a fatal setup failure: load_activity_filter raises for a
\* missing configuration, or the saved session cannot be resumed
SetupFails == Load(Raise, FALSE) \/ Login(FALSE)

\* C19: a run that ends on a fatal setup failure (the session cannot be
\* resumed, or the filter configuration is missing) has not created, migrated
\* or otherwise modified the CSV: the file is as the run found it.
C19_SetupFailureLeavesCsv == [][SetupFails => csv' = mig.before]_vars

(***************************************************************************)
(* The daily wellness save and the days it does not write                  *)
(***************************************************************************)
\* the rows of the wellness file f: its lines that are neither blank nor the header
WellnessRowsOf(f) == {f.rows[i] : i \in {j \in 1..Len(f.rows) : f.rows[j] # <<>> /\ f.rows[j] # HEADERS}}

\* the step is a run of the daily wellness job that saved
WellnessSaves == w_runs' # w_runs /\ w_last'.saved

\* C20: the daily wellness save keeps the other days: whatever the file held
\* before, a file whose read raises included, every row of a date other than
\* today's is in the file after the save, with the values it had.
C20_SavePreservesOtherDays ==
    [][WellnessSaves =>
        \A row \in WellnessRowsOf(wcsv) :
            row[1] # w_last'.today => row \in Range(wcsv'.rows)]_vars

(***************************************************************************)
(* The cloud job (SpecCloud)                                               *)
(***************************************************************************)
\* the positions of the log at which a call of one of ops was made
LogAt(ops) == {i \in 1..Len(c_log) : c_log[i].op \in ops}
RunsAt == LogAt({"run_cmd"})
PullsAt == LogAt({"download_token_cache", "download_file_if_exists"})
CsvUploadsAt == LogAt({"upload_all_csvs", "upload_or_replace_csv", "upload_all_csvs_end"})
TokenUploadsAt == LogAt({"upload_token_cache"})

\* before position i the call op on arg returned
ReturnedBefore(i, op, arg) ==
    \E j \in 1..(i - 1) : c_log[j].op = op /\ c_log[j].arg = arg /\ c_log[j].ok

\* before position i the script exited with status zero
ExitedZeroBefore(i, script) ==
    \E j \in RunsAt : j < i /\ c_log[j].arg = script /\ c_log[j].returncode = 0

\* C21: the cloud job syncs files only at its boundaries and in a fixed
\* order: the token cache and both CSV files are pulled before the first job
\* script starts and nothing is pulled later, the CSV upload starts only after
\* both job scripts exited with status zero, the token cache is uploaded only
\* after the CSV upload completed, and after a job script that exited
\* non-zero neither upload happens.
C21_SyncOnlyAtJobBoundaries ==
    /\ \A i \in RunsAt :
        /\ ReturnedBefore(i, "download_token_cache", "")
        /\ ReturnedBefore(i, "download_file_if_exists", CsvNames[1])
        /\ ReturnedBefore(i, "download_file_if_exists", CsvNames[2])
        /\ \A j \in PullsAt : j < i
    /\ \A i \in CsvUploadsAt \cup TokenUploadsAt :
        /\ ExitedZeroBefore(i, "garmin_activities_daily.py")
        /\ ExitedZeroBefore(i, "garmin_stats_daily.py")
        /\ \A j \in RunsAt : j < i
    /\ \A i \in TokenUploadsAt : ReturnedBefore(i, "upload_all_csvs_end", "")
    /\ (\E i \in RunsAt : c_log[i].returncode # 0) => CsvUploadsAt \cup TokenUploadsAt = {}

\* an execution that pulled both files, ran both scripts, uploaded both
\* files and then the token cache
C21_Witness ==
    /\ c_pc = "done"
    /\ Cardinality(PullsAt) = 3
    /\ Cardinality(RunsAt) = 2
    /\ Cardinality(LogAt({"upload_or_replace_csv"})) = 2
    /\ c_log[Len(c_log)] = Event("upload_token_cache", "", TRUE)

(***************************************************************************)
(* Rows and identifiers (SpecCall)                                         *)
(***************************************************************************)
\* lowercase, spaces to underscores
NormalizedLabel(t) == str_replace(str_lower(t), " ", "_")

\* C22: the activity_type of a row is the normalized label: the upstream
\* type, from the typeKey or typeName of the structured sub-object or else
\* from the flat fields, lowercased and with underscores for spaces, so that
\* "Virtual Ride" is stored as "virtual_ride".
C22_RowTypeIsNormalizedLabel ==
    Returned("to_row") =>
        dict_get(p_out, <<"a","c","t","i","v","i","t","y","_","t","y","p","e">>)
            = PyStr(NormalizedLabel(normalize_activity_type(p_call.args[1])))

\* the values of activityId, activity_id and id, in that order
IdFields(act) ==
    <<dict_get(act, <<"a","c","t","i","v","i","t","y","I","d">>), dict_get(act, <<"a","c","t","i","v","i","t","y","_","i","d">>), dict_get(act, <<"i","d">>)>>

\* the first of the values vs that is not None, or None
FirstNonNull(vs) ==
    IF \A i \in 1..Len(vs) : vs[i] = None THEN None
    ELSE vs[CHOOSE i \in 1..Len(vs) : vs[i] # None /\ \A j \in 1..(i - 1) : vs[j] = None]

\* C23: coerce_activity_id returns the text of the first value that is not
\* None among activityId, activity_id and id, whatever the three hold (a first
\* field of 0 or "" with a later field set included), and None only when all
\* three are None.
C23_FirstNonNullIdentifier ==
    Returned("coerce_activity_id") =>
        p_out = str_or_none(FirstNonNull(IdFields(p_call.args[1])))

(***************************************************************************)
(* Detail fetches of a run (Spec)                                          *)
(***************************************************************************)
\* the cell of the column name in an appended line
Cell(line, name) == line[FieldIndex(name)]

\* the lines of an append whose activity has the identifier id
LinesOf(a, id) == {i \in 1..Len(a.rows) : Cell(a.rows[i], <<"a","c","t","i","v","i","t","y","_","i","d">>) = id}

\* the average powers and durations a row of the runs may hold
RowPowers == {None, PyFloat(150000), PyFloat(200000)}
RowDurations == {None, PyFloat(3600000)}

\* the intensity_factor and tss cells of line are those computed from its
\* avg_power_w and duration_s and the FTP ftp_watts
MetricsFromAveragePower(line, ftp_watts) ==
    \E p \in RowPowers, d \in RowDurations :
        /\ Cell(line, <<"a","v","g","_","p","o","w","e","r","_","w">>) = CsvCell(p)
        /\ Cell(line, <<"d","u","r","a","t","i","o","n","_","s">>) = CsvCell(d)
        /\ Cell(line, <<"i","n","t","e","n","s","i","t","y","_","f","a","c","t","o","r">>) = CsvCell(intensity_factor(p, ftp_watts))
        /\ Cell(line, <<"t","s","s">>) = CsvCell(tss(d, p, ftp_watts))

\* C24: a run fetches the detail of an activity only when the activity's
\* normalized type is of the cycling family and the activity passed the
\* duplicate and the filter checks (it was not stored before and its type is
\* allowed); a row of an activity whose detail was not fetched has empty
\* best_20m_watts and normalized_power_w, and its intensity_factor and tss
\* are computed from the average power.
C24_DetailOnlyForCyclingFamily ==
    [][Appends =>
        /\ \A id \in last_append'.fetched :
            /\ LinesOf(last_append', id) # {}
            /\ id \notin Range(ActivityIds(last_append'.pre))
            /\ \A i \in LinesOf(last_append', id) :
                /\ normalize_key(Cell(last_append'.rows[i], <<"a","c","t","i","v","i","t","y","_","t","y","p","e">>)) \in CYCLING_TYPE_KEYS
                /\ TypePasses(run.flt, Cell(last_append'.rows[i], <<"a","c","t","i","v","i","t","y","_","t","y","p","e">>))
        /\ \A i \in 1..Len(last_append'.rows) :
            Cell(last_append'.rows[i], <<"a","c","t","i","v","i","t","y","_","i","d">>) \notin last_append'.fetched =>
                /\ Cell(last_append'.rows[i], <<"b","e","s","t","_","2","0","m","_","w","a","t","t","s">>) = <<>>
                /\ Cell(last_append'.rows[i], <<"n","o","r","m","a","l","i","z","e","d","_","p","o","w","e","r","_","w">>) = <<>>
                /\ MetricsFromAveragePower(last_append'.rows[i], run.ftp.ftp_watts)]_vars

\* a run that resolved an FTP has appended a ride whose detail it fetched
\* and a run with an average power whose detail it did not fetch, the run
\* with an intensity factor and without a normalized power
C24_Witness ==
    /\ last_append.run = runs
    /\ run.ftp.ftp_watts # None
    /\ Len(last_append.rows) = 2
    /\ last_append.fetched = {<<"2">>}
    /\ \E i \in 1..2 :
        /\ Cell(last_append.rows[i], <<"a","c","t","i","v","i","t","y","_","i","d">>) = <<"1">>
        /\ Cell(last_append.rows[i], <<"a","v","g","_","p","o","w","e","r","_","w">>) # <<>>
        /\ Cell(last_append.rows[i], <<"i","n","t","e","n","s","i","t","y","_","f","a","c","t","o","r">>) # <<>>
        /\ Cell(last_append.rows[i], <<"n","o","r","m","a","l","i","z","e","d","_","p","o","w","e","r","_","w">>) = <<>>
    /\ \E i \in 1..2 :
        /\ Cell(last_append.rows[i], <<"a","c","t","i","v","i","t","y","_","i","d">>) = <<"2">>
        /\ Cell(last_append.rows[i], <<"n","o","r","m","a","l","i","z","e","d","_","p","o","w","e","r","_","w">>) # <<>>

(***************************************************************************)
(* Detail fetches of the FTP fallback (SpecFtp)                            *)
(***************************************************************************)
\* the first call of each detail fetch in the call log
DetailFetches ==
    CallIndexes({IF r_api.has_get_activity_details THEN "get_activity_details"
                 ELSE "activity_endpoint"})

\* the elements of the lookback list before its first element that is not a
\* mapping
ScannedList ==
    LET bad == {i \in 1..Len(LookbackList) : LookbackList[i].tag # "dict"}
    IN  IF bad = {} THEN LookbackList ELSE SubSeq(LookbackList, 1, SetMin(bad) - 1)

\* the scanned elements that are candidates: of a fallback type and with an
\* identifier
Candidates ==
    {i \in 1..Len(ScannedList) :
        /\ normalize_key(normalize_activity_type(ScannedList[i])) \in FtpFallbackTypes
        /\ Truthy(coerce_activity_id(ScannedList[i]))}

\* C25: the FTP fallback fetches the detail of at most 60 candidates however
\* many the list holds; elements of another type or without an identifier
\* are neither fetched nor counted, so the fetches are those of the first 60
\* candidates; and a pacing delay follows each fetch before the next one.
C25_FallbackFetchesAtMostSixty ==
    r_done =>
        /\ Cardinality(DetailFetches) <= 60
        /\ ~Truthy(SettingsYield) =>
              Cardinality(DetailFetches) = IF Cardinality(Candidates) < 60
                                           THEN Cardinality(Candidates) ELSE 60
        /\ \A i \in DetailFetches :
              /\ \E c \in Candidates : coerce_activity_id(ScannedList[c]).s = r_out.calls[i].arg
              /\ \E k \in (i + 1)..Len(r_out.calls) :
                    /\ r_out.calls[k].op = "sleep"
                    /\ \A j \in DetailFetches : ~(i < j /\ j < k)

\* a list of 59 rides, a run, a ride without identifier and two more rides:
\* 60 details were fetched, the 60th that of the ride after the two elements
\* that do not count, and the last ride was left alone
C25_Witness ==
    /\ r_done /\ ~r_out.raised
    /\ Len(LookbackList) = 63
    /\ Cardinality(Candidates) = 61
    /\ Cardinality(DetailFetches) = 60
    /\ \E i \in DetailFetches : r_out.calls[i].arg = <<"1">>
    /\ \A i \in DetailFetches : r_out.calls[i].arg # <<"2">>

(***************************************************************************)
(* FTP results of the three resolvers (SpecCall)                           *)
(***************************************************************************)
\* C26: every FTP result a resolver returns, that of the daily and history
\* scripts and that of the ftp_resolver module, has ftp_watts null exactly
\* when its source is "missing", and an ftp_watts that is not null lies
\* within 50..1200.
C26_FtpResultWellFormed ==
    (p_done /\ p_call.fn \in ResolverNames /\ p_out # Raise) =>
        /\ p_out.ftp_watts = None <=> p_out.source = <<"m","i","s","s","i","n","g">>
        /\ p_out.ftp_watts # None => InFtpBounds(p_out.ftp_watts)

(***************************************************************************)
(* A failure inside the loop over the fetched activities (Spec)            *)
(***************************************************************************)
\* the elements of a fetched list that a run would store: mappings with an
\* identifier not yet stored and of a type the run's filter allows
Storable(acts) ==
    {i \in 1..Len(acts) :
        /\ acts[i].tag = "dict"
        /\ Truthy(coerce_activity_id(acts[i]))
        /\ coerce_activity_id(acts[i]).s \notin run.existing_ids
        /\ allows(run.flt, PyStr(normalize_activity_type(acts[i])))}

\* C27: a failure while one activity of the fetched list is processed (an
\* element that is not a mapping) skips only that activity: the other
\* activities of the list are still normalized and appended, and the rows the
\* CSV held stay as they were.
C27_FailureSkipsOneActivity ==
    [][\A api \in RunApis :
        ((DailyBody(api) \/ Chunk(api)) /\ ~fetch_activities(api).raised) =>
            /\ \A i \in Storable(fetch_activities(api).acts) :
                coerce_activity_id(fetch_activities(api).acts[i]).s \in Range(ActivityIds(csv'))
            /\ csv.exists =>
                /\ Len(csv'.rows) >= Len(csv.rows)
                /\ SubSeq(csv'.rows, 1, Len(csv.rows)) = csv.rows]_vars

(***************************************************************************)
(* Two instances at once (SpecPair)                                        *)
(***************************************************************************)
\* the data rows of the shared CSV that hold the identifier id
RowsWithId(id) == {k \in 1..Len(ActivityIds(j_csv)) : ActivityIds(j_csv)[k] = id}

\* both instances have run to their end, and each loaded the identifiers
\* before the other appended anything
BothLoadedFirst ==
    /\ \A i \in JobInstances : j_inst[i].pc = "done"
    /\ j_inst[1].loaded_at = j_inst[2].loaded_at

\* no instance started while the other was running
Serialized == \A i \in JobInstances : j_inst[i].alone

\* C28: the jobs take no lock.  When two instances run at once on one CSV
\* path and both load the stored identifiers before either appends, an
\* activity offered to both is appended by both and the file ends with two
\* rows of that activity_id; the identifiers of the file are unique when at
\* most one instance runs at a time.
C28_ConcurrentInstancesDuplicate ==
    /\ BothLoadedFirst =>
          \A id \in j_inst[1].offered \cap j_inst[2].offered :
              /\ id \in j_inst[1].appended \cap j_inst[2].appended
              /\ Cardinality(RowsWithId(id)) = 2
    /\ Serialized =>
          \A id \in Range(ActivityIds(j_csv)) : Cardinality(RowsWithId(id)) = 1

\* a daily and a history instance both loaded the identifiers of the same
\* file, both were then given the same run, and the file holds it twice
C28_Witness ==
    /\ BothLoadedFirst
    /\ ~Serialized
    /\ j_inst[1].kind # j_inst[2].kind
    /\ <<"1">> \in j_inst[1].appended \cap j_inst[2].appended
    /\ Cardinality(RowsWithId(<<"1">>)) = 2

(***************************************************************************)
(* The wellness CSV under both wellness jobs (SpecWellnessBoth)            *)
(***************************************************************************)
\* the dates of the data rows of the wellness CSV, in file order
WellnessRowDates ==
    IF ~wcsv.exists \/ wcsv.rows = <<>> THEN <<>>
    ELSE [i \in 1..(Len(wcsv.rows) - 1) |->
             IF wcsv.rows[i + 1] = <<>> THEN <<>> ELSE wcsv.rows[i + 1][1]]

\* C29: after any sequence of serialized wellness history runs and daily
\* wellness runs that starts with no file, the wellness CSV begins with the
\* header row and holds at most one data row per date; a history run writes
\* no date that was present when it started and no date twice.
C29_OneRowPerDate ==
    /\ wcsv.exists => wcsv.rows # <<>> /\ wcsv.rows[1] = HEADERS
    /\ \A i, j \in 1..Len(WellnessRowDates) :
          i # j => WellnessRowDates[i] # WellnessRowDates[j]
    /\ \A i \in 1..Len(h_run.written) :
          /\ h_run.written[i] \notin h_run.found
          /\ \A j \in 1..Len(h_run.written) : i # j => h_run.written[i] # h_run.written[j]

\* on the second day a history run found the row a daily run saved the day
\* before, skipped that date and wrote the date before it
C29_Witness ==
    /\ w_day = 2
    /\ h_run.pc = "days"
    /\ h_run.current > h_run.end
    /\ h_run.found = {WellnessDates[1]}
    /\ h_run.written = <<HistoryDates[1]>>
    /\ Len(WellnessRowDates) = 2

(***************************************************************************)
(* The ranges of the history backfill (SpecBackfillFair)                   *)
(***************************************************************************)
\* the loop is entered with START_DATE not after today
LoopEntered == b_run.pc = "loop" /\ b_run.ranges = <<>> /\ b_run.end >= 0

\* the ranges asked for so far are ascending, disjoint and contiguous from
\* START_DATE on, none is empty and none is longer than CHUNK_DAYS + 1 days
RangesInOrder ==
    /\ b_run.ranges # <<>> => b_run.ranges[1].from = 0
    /\ \A i \in 1..Len(b_run.ranges) :
          /\ b_run.ranges[i].from <= b_run.ranges[i].to
          /\ b_run.ranges[i].to - b_run.ranges[i].from + 1 <= b_run.chunk_days + 1
          /\ i > 1 => b_run.ranges[i].from = b_run.ranges[i - 1].to + 1

\* the dates of the ranges asked for
RangeDates == UNION {b_run.ranges[i].from .. b_run.ranges[i].to : i \in 1..Len(b_run.ranges)}

\* the loop is over; if no chunk raised, the ranges are exactly the dates
\* from START_DATE to today
LoopOver ==
    /\ b_run.pc \in {"done", "failed"}
    /\ RangesInOrder
    /\ b_run.pc = "done" => RangeDates = 0..b_run.end

\* C30: with CHUNK_DAYS >= 0 and START_DATE not after today the loop of the
\* history backfill terminates, and the ranges [current, chunk_end] it asked
\* for are ascending, pairwise disjoint and contiguous, each of at most
\* CHUNK_DAYS + 1 days, and together exactly the dates from START_DATE to
\* today, chunks without activities included.
C30_BackfillTerminatesAndCovers == LoopEntered ~> LoopOver

\* a backfill of five days in chunks of two: three ranges, the last cut at
\* today, one of them without activities
C30_Witness ==
    /\ b_run.pc = "done"
    /\ b_run.chunk_days = 1
    /\ b_run.end = 4
    /\ Len(b_run.ranges) = 3
    /\ b_run.ranges[3].from = 4 /\ b_run.ranges[3].to = 4
    /\ b_run.ranges[2].got = "none"
====
